---- MODULE Spec2Model ----
(***************************************************************************)
(* Choss: the rule engine (pos.rs, piece.rs, board.rs), the position       *)
(* factory (make_board.rs) and the search (ai.rs) of Inspirateur/Undoing.  *)
(*                                                                         *)
(* A position Pos(x, y) is the pair <<x, y>>.  A square (Rust              *)
(* Option<(Color, Piece)>) is a record [color, piece, orientation, status];*)
(* Vacant is the square None; get() answers OutOfBoard where Rust answers  *)
(* Option::None.  A Rust panic (unwrap on None, index out of range) is the *)
(* value Panicked (boards) or "panic" (is_checked).                        *)
(* Scores are f32 in the source; here they are integers in hundredths      *)
(* (piece values 1, 3, 3.5, 5, 9, 1000 become 100 .. 100000), which keeps  *)
(* every sum, the 0.9 discount and the /100 mobility term exact.           *)
(***************************************************************************)
EXTENDS Integers, Sequences, FiniteSets, TLC

VARIABLES board, turn, leaped, req, out

vars == <<board, turn, leaped, req, out>>

----------------------------------------------------------------------------
(* piece.rs: Color, PawnStatus, Piece, Action *)

Colors == {"White", "Black"}

Color_next(color) == IF color = "White" THEN "Black" ELSE "White"

Vacant == [color |-> "-", piece |-> "-", orientation |-> <<0, 0>>, status |-> "-"]

OutOfBoard == [color |-> "-", piece |-> "OutOfBoard", orientation |-> <<0, 0>>, status |-> "-"]

Pawn(color, orientation, status) ==
    [color |-> color, piece |-> "Pawn", orientation |-> orientation, status |-> status]

Officer(color, kind) ==
    [color |-> color, piece |-> kind, orientation |-> <<0, 0>>, status |-> "-"]

Go(p) == [t |-> "Go", p |-> p, k |-> "-"]

Take(p) == [t |-> "Take", p |-> p, k |-> "-"]

Promotion(kind) == [t |-> "Promotion", p |-> <<0, 0>>, k |-> kind]

----------------------------------------------------------------------------
(* pos.rs *)

LINES == << <<0, 1>>, <<0, -1>>, <<1, 0>>, <<-1, 0>> >>

DIAGS == << <<1, 1>>, <<1, -1>>, <<-1, 1>>, <<-1, -1>> >>

LOS == LINES \o DIAGS

add(a, b) == <<a[1] + b[1], a[2] + b[2]>>

mul(a, k) == <<a[1] * k, a[2] * k>>

\* a neighbors that answers a diagonal with the two diagonals next to it
neighbors_among_diagonals(d) ==
    IF d[1] = 0 THEN << <<1, d[2]>>, <<-1, d[2]>> >>
    ELSE IF d[2] = 0 THEN << <<d[1], 1>>, <<d[1], -1>> >>
    ELSE << <<d[1], -d[2]>>, <<-d[1], d[2]>> >>

neighbors(d) ==
    IF d[1] = 0 THEN << <<1, d[2]>>, <<-1, d[2]>> >>
    ELSE IF d[2] = 0 THEN << <<d[1], 1>>, <<d[1], -1>> >>
    ELSE << <<d[1], 0>>, <<0, d[2]>> >>

----------------------------------------------------------------------------
(* board.rs: the grid *)

Panicked == [width |-> -1, height |-> -1, squares |-> << >>]

new(width, height) ==
    [width |-> width, height |-> height, squares |-> [n \in 1..(width * height) |-> Vacant]]

\* an in_bound that only checks the upper limits
in_bound_below_limits(b, p) == p[1] < b.width /\ p[2] < b.height

in_bound(b, p) == 0 <= p[1] /\ p[1] < b.width /\ 0 <= p[2] /\ p[2] < b.height

i(b, p) == p[1] + p[2] * b.width

\* a pos that counts in columns of `height` squares
pos_by_height(b, n) == <<n % b.height, n \div b.height>>

pos(b, n) == <<n % b.width, n \div b.width>>

get(b, p) == IF in_bound(b, p) THEN b.squares[i(b, p) + 1] ELSE OutOfBoard

\* squares[i] = square: an index outside the vector panics; an out-of-bound
\* position whose index is inside the vector lands on another square.
set(b, p, square) ==
    IF b = Panicked THEN Panicked
    ELSE IF i(b, p) < 0 \/ i(b, p) >= Len(b.squares) THEN Panicked
    ELSE [b EXCEPT !.squares[i(b, p) + 1] = square]

Positions(b) == {pos(b, n) : n \in 0..(Len(b.squares) - 1)}

----------------------------------------------------------------------------
(* piece.rs: the pseudo-legal generators.  A move is a sequence of actions, *)
(* a generator returns a sequence of moves in the order the code pushes.    *)

\* a `let` binding: v is evaluated once and the value handed to F
Bind(v, F(_)) == CHOOSE r \in {F(x) : x \in {v}} : TRUE

RECURSIVE FlatMap(_, _)
FlatMap(F(_), s) ==
    Bind(s, LAMBDA v : IF v = << >> THEN << >> ELSE F(Head(v)) \o FlatMap(F, Tail(v)))

RECURSIVE last_go(_, _)
last_go(p, actions) ==
    IF actions = << >> THEN p
    ELSE last_go(IF Head(actions).t = "Go" THEN Head(actions).p ELSE p, Tail(actions))

\* a promotion that also offers the Rook
pawn_promotion_rook(b, p, orientation, mvs) ==
    LET expand(actions) ==
            IF get(b, add(last_go(p, actions), orientation)) = OutOfBoard
            THEN << Append(actions, Promotion("Queen")), Append(actions, Promotion("Knight")),
                    Append(actions, Promotion("Rook")) >>
            ELSE << actions >>
    IN FlatMap(expand, mvs)

\* pawn moves left as they are, also when they reach the edge
pawn_promotion_never(b, p, orientation, mvs) == mvs

pawn_promotion(b, p, orientation, mvs) ==
    LET expand(actions) ==
            IF get(b, add(last_go(p, actions), orientation)) = OutOfBoard
            THEN << Append(actions, Promotion("Queen")), Append(actions, Promotion("Knight")) >>
            ELSE << actions >>
    IN FlatMap(expand, mvs)

\* a pawn that captures on its diagonals whatever the color of the piece there
pawn_takes_any_color(b, p, color, orientation) ==
    LET diag(diag_dir) ==
            IF get(b, add(diag_dir, p)) \notin {OutOfBoard, Vacant}
            THEN << <<Go(add(diag_dir, p))>> >> ELSE << >>
    IN pawn_promotion(b, p, orientation, FlatMap(diag, neighbors(orientation)))

pawn_takes(b, p, color, orientation) ==
    LET diag(diag_dir) ==
            LET diag_pos == add(diag_dir, p)
                sq == get(b, diag_pos)
                en_passant_pos == add(diag_pos, mul(orientation, -1))
                ep == get(b, en_passant_pos)
            IN IF sq = OutOfBoard THEN << >>
               ELSE IF sq # Vacant
                    THEN (IF color # sq.color THEN << <<Go(diag_pos)>> >> ELSE << >>)
               ELSE IF /\ ep # OutOfBoard
                       /\ ep # Vacant
                       /\ color # ep.color
                       /\ ep.piece = "Pawn"
                       /\ ep.status = "JustLeaped"
                    THEN << <<Go(diag_pos), Take(en_passant_pos)>> >>
               ELSE << >>
    IN pawn_promotion(b, p, orientation, FlatMap(diag, neighbors(orientation)))

\* a pawn that only ever steps one square forward
pawn_moves_without_leap(b, p, color, orientation, status) ==
    pawn_promotion(b, p, orientation,
                   IF get(b, add(orientation, p)) = Vacant
                   THEN << <<Go(add(orientation, p))>> >> ELSE << >>)
    \o pawn_takes(b, p, color, orientation)

pawn_moves(b, p, color, orientation, status) ==
    LET forward_pos == add(orientation, p)
        leap_pos == add(mul(orientation, 2), p)
        steps == IF get(b, forward_pos) = Vacant
                 THEN << <<Go(forward_pos)>> >> \o
                      (IF status = "CanLeap" /\ get(b, leap_pos) = Vacant
                       THEN << <<Go(leap_pos)>> >> ELSE << >>)
                 ELSE << >>
    IN pawn_promotion(b, p, orientation, steps) \o pawn_takes(b, p, color, orientation)

\* iproduct!([-2, 2], [-1, 1]) flat-mapped to [Pos(long, short), Pos(short, long)]
knight_targets(p) ==
    << add(<<-2, -1>>, p), add(<<-1, -2>>, p), add(<<-2, 1>>, p), add(<<1, -2>>, p),
       add(<<2, -1>>, p), add(<<-1, 2>>, p), add(<<2, 1>>, p), add(<<1, 2>>, p) >>

\* a step that captures whatever piece stands on the target
step_takes_any_color(b, color, targets) ==
    LET keep(take_pos) ==
            IF get(b, take_pos) \notin {OutOfBoard, Vacant}
            THEN << <<Go(take_pos)>> >> ELSE << >>
    IN FlatMap(keep, targets)

step_takes(b, color, targets) ==
    LET keep(take_pos) ==
            LET sq == get(b, take_pos)
            IN IF sq # OutOfBoard /\ sq # Vacant /\ color # sq.color
               THEN << <<Go(take_pos)>> >> ELSE << >>
    IN FlatMap(keep, targets)

\* a step that may land on a piece of the mover's color
step_moves_onto_friends(b, color, targets) ==
    LET keep(take_pos) ==
            IF get(b, take_pos) = OutOfBoard THEN << >> ELSE << <<Go(take_pos)>> >>
    IN FlatMap(keep, targets)

step_moves(b, color, targets) ==
    LET keep(take_pos) ==
            LET sq == get(b, take_pos)
            IN IF sq = OutOfBoard THEN << >>
               ELSE IF sq # Vacant /\ color = sq.color THEN << >>
               ELSE << <<Go(take_pos)>> >>
    IN FlatMap(keep, targets)

knight_takes(b, p, color) == step_takes(b, color, knight_targets(p))

knight_moves(b, p, color) == step_moves(b, color, knight_targets(p))

\* a line of sight that goes on behind an enemy piece
RECURSIVE ray_through(_, _, _, _, _)
ray_through(b, curr, color, dir, free) ==
    LET curr_pos == add(curr, dir)
        sq == get(b, curr_pos)
    IN IF sq = OutOfBoard THEN << >>
       ELSE IF sq # Vacant /\ color = sq.color THEN << >>
       ELSE (IF free \/ sq # Vacant THEN << <<Go(curr_pos)>> >> ELSE << >>)
            \o ray_through(b, curr_pos, color, dir, free)

RECURSIVE ray(_, _, _, _, _)
ray(b, curr, color, dir, free) ==
    LET curr_pos == add(curr, dir)
        sq == get(b, curr_pos)
    IN IF sq = OutOfBoard THEN << >>
       ELSE IF sq # Vacant
            THEN (IF color # sq.color THEN << <<Go(curr_pos)>> >> ELSE << >>)
       ELSE (IF free THEN << <<Go(curr_pos)>> >> ELSE << >>) \o ray(b, curr_pos, color, dir, free)

los_takes(b, p, color, dirs) ==
    LET along(dir) == ray(b, p, color, dir, FALSE) IN FlatMap(along, dirs)

los_moves(b, p, color, dirs) ==
    LET along(dir) == ray(b, p, color, dir, TRUE) IN FlatMap(along, dirs)

king_targets(p) == [n \in 1..Len(LOS) |-> add(LOS[n], p)]

king_takes(b, p, color) == step_takes(b, color, king_targets(p))

king_moves(b, p, color) == step_moves(b, color, king_targets(p))

\* a begin_turn that gives the leap back to a pawn that just leaped
Piece_begin_turn_restores_leap(sq) ==
    IF sq.piece = "Pawn" /\ sq.status = "JustLeaped"
    THEN [sq EXCEPT !.status = "CanLeap"]
    ELSE sq

\* a begin_turn that leaves every status as it is
Piece_begin_turn_keeps_status(sq) == sq

\* a begin_turn after which no pawn may leap
Piece_begin_turn_ends_leaps(sq) ==
    IF sq.piece = "Pawn" THEN [sq EXCEPT !.status = "CannotLeap"] ELSE sq

Piece_begin_turn(sq) ==
    IF sq.piece = "Pawn" /\ sq.status = "JustLeaped"
    THEN [sq EXCEPT !.status = "CannotLeap"]
    ELSE sq

\* a moved that never records a leap
Piece_moved_never_leaped(sq, start, target) ==
    IF sq.piece = "Pawn" THEN [sq EXCEPT !.status = "CannotLeap"] ELSE sq

\* a moved that records a leap and otherwise keeps the pawn's status
Piece_moved_keeps_status(sq, start, target) ==
    IF sq.piece = "Pawn" /\ add(start, mul(sq.orientation, 2)) = target
    THEN [sq EXCEPT !.status = "JustLeaped"]
    ELSE sq

Piece_moved(sq, start, target) ==
    IF sq.piece = "Pawn"
    THEN (IF add(start, mul(sq.orientation, 2)) = target
          THEN [sq EXCEPT !.status = "JustLeaped"]
          ELSE [sq EXCEPT !.status = "CannotLeap"])
    ELSE sq

Piece_moves(sq, b, p, color) ==
    CASE sq.piece = "Pawn" -> pawn_moves(b, p, color, sq.orientation, sq.status)
      [] sq.piece = "Knight" -> knight_moves(b, p, color)
      [] sq.piece = "Bishop" -> los_moves(b, p, color, DIAGS)
      [] sq.piece = "Rook" -> los_moves(b, p, color, LINES)
      [] sq.piece = "Queen" -> los_moves(b, p, color, LOS)
      [] sq.piece = "King" -> king_moves(b, p, color)

\* takes that leave out the pawn's en passant capture
Piece_takes_without_en_passant(sq, b, p, color) ==
    CASE sq.piece = "Pawn" ->
             SelectSeq(pawn_takes(b, p, color, sq.orientation),
                       LAMBDA actions : \A n \in 1..Len(actions) : actions[n].t # "Take")
      [] sq.piece = "Knight" -> knight_takes(b, p, color)
      [] sq.piece = "Bishop" -> los_takes(b, p, color, DIAGS)
      [] sq.piece = "Rook" -> los_takes(b, p, color, LINES)
      [] sq.piece = "Queen" -> los_takes(b, p, color, LOS)
      [] sq.piece = "King" -> king_takes(b, p, color)

Piece_takes(sq, b, p, color) ==
    CASE sq.piece = "Pawn" -> pawn_takes(b, p, color, sq.orientation)
      [] sq.piece = "Knight" -> knight_takes(b, p, color)
      [] sq.piece = "Bishop" -> los_takes(b, p, color, DIAGS)
      [] sq.piece = "Rook" -> los_takes(b, p, color, LINES)
      [] sq.piece = "Queen" -> los_takes(b, p, color, LOS)
      [] sq.piece = "King" -> king_takes(b, p, color)

----------------------------------------------------------------------------
(* board.rs: turns, play, check, legal moves *)

\* a begin_turn that demotes the JustLeaped pawns of both colors
begin_turn_of_all(b, color) ==
    [b EXCEPT !.squares = [n \in 1..Len(b.squares) |-> Piece_begin_turn(b.squares[n])]]

begin_turn(b, color) ==
    [b EXCEPT !.squares =
        [n \in 1..Len(b.squares) |->
            IF b.squares[n] # Vacant /\ b.squares[n].color = color
            THEN Piece_begin_turn(b.squares[n]) ELSE b.squares[n]]]

\* get(target).unwrap().unwrap(), then set(target, piece.moved(start, target))
moved(b, start, target) ==
    IF b = Panicked THEN Panicked
    ELSE IF get(b, target) = OutOfBoard \/ get(b, target) = Vacant THEN Panicked
    ELSE set(b, target, Piece_moved(get(b, target), start, target))

RECURSIVE play_actions(_, _, _, _)
play_actions(res, square, last_pos, actions) ==
    IF res = Panicked \/ actions = << >> THEN res
    ELSE LET action == Head(actions) IN
         CASE action.t = "Go" ->
                Bind(set(set(res, last_pos, Vacant), action.p, square), LAMBDA placed :
                Bind(moved(placed, last_pos, action.p), LAMBDA next :
                     play_actions(next, square, action.p, Tail(actions))))
           [] action.t = "Take" ->
                Bind(set(res, action.p, Vacant), LAMBDA next :
                     play_actions(next, square, last_pos, Tail(actions)))
           [] action.t = "Promotion" ->
                Bind(IF square = Vacant THEN Panicked
                     ELSE set(res, last_pos, Officer(square.color, action.k)), LAMBDA next :
                     play_actions(next, square, last_pos, Tail(actions)))

\* a play that refuses an origin not holding a piece of `color`
play_own_piece_only(b, color, p, actions) ==
    IF get(b, p).color # color THEN Panicked
    ELSE Bind(begin_turn(b, color), LAMBDA res : play_actions(res, get(b, p), p, actions))

\* `square` is read from self, the board before begin_turn; self.get(pos).unwrap()
\* panics when pos is out of bound.
play(b, color, p, actions) ==
    IF get(b, p) = OutOfBoard THEN Panicked
    ELSE Bind(begin_turn(b, color), LAMBDA res : play_actions(res, get(b, p), p, actions))

\* Option<Pos>: NoPos is Option::None
NoPos == <<-1, -1>>

\* the first index in lo..hi holding the King of `color`, as the loop finds it;
\* the range is searched by halves
RECURSIVE first_king(_, _, _, _)
first_king(b, color, lo, hi) ==
    IF lo > hi THEN NoPos
    ELSE IF lo = hi
         THEN (IF b.squares[lo + 1].color = color /\ b.squares[lo + 1].piece = "King"
               THEN pos(b, lo) ELSE NoPos)
    ELSE Bind((lo + hi) \div 2, LAMBDA mid :
         Bind(first_king(b, color, lo, mid), LAMBDA found :
              IF found # NoPos THEN found ELSE first_king(b, color, mid + 1, hi)))

\* a search for the King that forgets to compare the color
RECURSIVE first_king_of_any(_, _, _)
first_king_of_any(b, lo, hi) ==
    IF lo > hi THEN NoPos
    ELSE IF lo = hi
         THEN (IF b.squares[lo + 1].piece = "King" THEN pos(b, lo) ELSE NoPos)
    ELSE Bind((lo + hi) \div 2, LAMBDA mid :
         Bind(first_king_of_any(b, lo, mid), LAMBDA found :
              IF found # NoPos THEN found ELSE first_king_of_any(b, mid + 1, hi)))

king_pos_of_any(b, color) == first_king_of_any(b, 0, Len(b.squares) - 1)

king_pos(b, color) == first_king(b, color, 0, Len(b.squares) - 1)

\* what a caller sees when the generation of moves panicked
PanicMove == << [t |-> "Panic", p |-> NoPos, k |-> "-"] >>

PanickedMoves == << <<NoPos, PanicMove>> >>

targets_square(actions, p) ==
    \E k \in 1..Len(actions) : actions[k].t \in {"Go", "Take"} /\ actions[k].p = p

\* the candidates of the pieces of `color` on the squares lo..hi, in index
\* order; the range is walked by halves
RECURSIVE all_of(_, _, _, _, _)
all_of(G(_, _, _, _), b, color, lo, hi) ==
    IF lo > hi THEN << >>
    ELSE IF lo = hi
         THEN (IF b.squares[lo + 1].color = color
               THEN Bind(G(b.squares[lo + 1], b, pos(b, lo), color),
                         LAMBDA mvs : [k \in 1..Len(mvs) |-> <<pos(b, lo), mvs[k]>>])
               ELSE << >>)
    ELSE Bind((lo + hi) \div 2, LAMBDA mid :
              all_of(G, b, color, lo, mid) \o all_of(G, b, color, mid + 1, hi))

RECURSIVE is_checked(_, _)

\* a check detection that keeps only the captures safe for the attacker's own king
is_checked_by_safe_takes(b, color) ==
    IF king_pos(b, color) = NoPos THEN "panic"
    ELSE Bind(king_pos(b, color), LAMBDA king :
         Bind(all_of(Piece_takes, b, Color_next(color), 0, Len(b.squares) - 1), LAMBDA tk :
              IF \E k \in 1..Len(tk) :
                    /\ targets_square(tk[k][2], king)
                    /\ Bind(play(b, Color_next(color), tk[k][1], tk[k][2]),
                            LAMBDA played : is_checked(played, Color_next(color)) = "false")
              THEN "true" ELSE "false"))

\* "true" / "false", or "panic" when king_pos(color).unwrap() fails
is_checked(b, color) ==
    IF king_pos(b, color) = NoPos THEN "panic"
    ELSE Bind(king_pos(b, color), LAMBDA king :
         Bind(all_of(Piece_takes, b, Color_next(color), 0, Len(b.squares) - 1), LAMBDA tk :
              IF \E k \in 1..Len(tk) : targets_square(tk[k][2], king)
              THEN "true" ELSE "false"))

\* a filter that looks at the board before the move instead of after it
filter_unplayed_moves(b, color, p, mvs) ==
    IF is_checked(b, color) = "panic" THEN << PanicMove >>
    ELSE SelectSeq(mvs, LAMBDA actions : is_checked(b, color) = "false")

\* is_checked on the board after the move
checked_after(b, color, p, actions) ==
    Bind(play(b, color, p, actions), LAMBDA played : is_checked(played, color))

filter_safe_moves(b, color, p, mvs) ==
    Bind([k \in 1..Len(mvs) |-> checked_after(b, color, p, mvs[k])], LAMBDA checked :
         IF \E k \in 1..Len(mvs) : checked[k] = "panic"
         THEN << PanicMove >>
         ELSE FlatMap(LAMBDA k : IF checked[k] = "false" THEN << mvs[k] >> ELSE << >>,
                      [k \in 1..Len(mvs) |-> k]))

RECURSIVE safe_of(_, _, _, _, _)
safe_of(G(_, _, _, _), b, color, lo, hi) ==
    IF lo > hi THEN << >>
    ELSE IF lo = hi
         THEN (IF b.squares[lo + 1].color = color
               THEN Bind(G(b.squares[lo + 1], b, pos(b, lo), color), LAMBDA pseudo :
                    Bind(filter_safe_moves(b, color, pos(b, lo), pseudo),
                         LAMBDA mvs : [k \in 1..Len(mvs) |-> <<pos(b, lo), mvs[k]>>]))
               ELSE << >>)
    ELSE Bind((lo + hi) \div 2, LAMBDA mid :
              safe_of(G, b, color, lo, mid) \o safe_of(G, b, color, mid + 1, hi))

generate(G(_, _, _, _), b, color, safe_moves) ==
    IF safe_moves
    THEN Bind(safe_of(G, b, color, 0, Len(b.squares) - 1), LAMBDA res :
              IF \E k \in 1..Len(res) : res[k][2] = PanicMove THEN PanickedMoves ELSE res)
    ELSE all_of(G, b, color, 0, Len(b.squares) - 1)

takes(b, color, safe_moves) == generate(Piece_takes, b, color, safe_moves)

moves(b, color, safe_moves) == generate(Piece_moves, b, color, safe_moves)

----------------------------------------------------------------------------
(* ai.rs: scores are hundredths of the f32 value *)

INFINITY == 1000000000

NEG_INFINITY == -INFINITY

Max(a, b) == IF a >= b THEN a ELSE b

Min(a, b) == IF a <= b THEN a ELSE b

\* f32 addition of a finite term: an infinite score stays infinite
fadd(score, x) == IF score = INFINITY \/ score = NEG_INFINITY THEN score ELSE score + x

piece_value(sq) ==
    CASE sq.piece = "Pawn" -> 100
      [] sq.piece = "Knight" -> 300
      [] sq.piece = "Bishop" -> 350
      [] sq.piece = "Rook" -> 500
      [] sq.piece = "Queen" -> 900
      [] sq.piece = "King" -> 100000

RECURSIVE action_values(_, _, _)
action_values(b, color, actions) ==
    IF actions = << >> THEN 0
    ELSE LET action == Head(actions)
             sq == get(b, action.p)
         IN (IF action.t = "Promotion" THEN piece_value(Officer(color, action.k))
             ELSE IF sq # OutOfBoard /\ sq # Vacant
                  THEN piece_value(sq) * (IF sq.color = color THEN -1 ELSE 1)
             ELSE 0) + action_values(b, color, Tail(actions))

move_value(b, p, actions) ==
    LET value == action_values(b, get(b, p).color, actions)
    IN IF value > 0 THEN value - (piece_value(get(b, p)) * 9) \div 10 ELSE value

\* a material sum that counts the White pieces only
RECURSIVE mat_sum_of_white(_, _, _)
mat_sum_of_white(squares, lo, hi) ==
    IF lo > hi THEN 0
    ELSE (IF squares[lo] # Vacant /\ squares[lo].color = "White"
          THEN piece_value(squares[lo]) ELSE 0)
         + mat_sum_of_white(squares, lo + 1, hi)

\* the fold of mat_score over squares[lo..hi], summed by halves
RECURSIVE mat_sum(_, _, _)
mat_sum(squares, lo, hi) ==
    IF lo > hi THEN 0
    ELSE IF lo = hi
         THEN (IF squares[lo] = Vacant THEN 0
               ELSE piece_value(squares[lo]) * (IF squares[lo].color = "White" THEN 1 ELSE -1))
    ELSE Bind((lo + hi) \div 2, LAMBDA mid :
              mat_sum(squares, lo, mid) + mat_sum(squares, mid + 1, hi))

mat_score(b) == mat_sum(b.squares, 1, Len(b.squares))

\* moves.sort_by(move_value descending): a stable sort
RECURSIVE insert_by_value(_, _, _)
insert_by_value(b, sorted, cand) ==
    IF sorted = << >> THEN << cand >>
    ELSE IF move_value(b, Head(sorted)[1], Head(sorted)[2]) >= move_value(b, cand[1], cand[2])
         THEN << Head(sorted) >> \o insert_by_value(b, Tail(sorted), cand)
         ELSE << cand >> \o sorted

RECURSIVE sort_by_value(_, _, _)
sort_by_value(b, mvs, sorted) ==
    IF mvs = << >> THEN sorted
    ELSE Bind(insert_by_value(b, sorted, Head(mvs)),
              LAMBDA inserted : sort_by_value(b, Tail(mvs), inserted))

RECURSIVE _negamax(_, _, _, _, _)
RECURSIVE _negamax_loop(_, _, _, _, _, _, _)

RECURSIVE _negamax_loop_without_floor(_, _, _, _, _, _, _)

\* the for loop of _negamax, were its result never raised to the board's
\* material score when out of depth
_negamax_loop_without_floor(b, depth, alpha, beta, color, mvs, best_score) ==
    IF mvs = << >>
    THEN best_score
    ELSE CHOOSE r \in UNION {{ IF a >= beta THEN a
                                ELSE _negamax_loop_without_floor(b, depth, a, beta, color,
                                                                 Tail(mvs), best)
                                : a \in {Max(alpha, best)} }
                              : best \in {Max(best_score,
                                              -_negamax(play(b, color, Head(mvs)[1], Head(mvs)[2]),
                                                        depth - 1, -beta, -alpha,
                                                        Color_next(color)))}} : TRUE

\* the for loop of _negamax over the sorted candidates
_negamax_loop(b, depth, alpha, beta, color, mvs, best_score) ==
    IF mvs = << >>
    THEN (IF depth <= 0
          THEN Max(best_score, mat_score(b) * (IF color = "White" THEN 1 ELSE -1))
          ELSE best_score)
    ELSE CHOOSE r \in UNION {{ IF a >= beta THEN a
                                ELSE _negamax_loop(b, depth, a, beta, color, Tail(mvs), best)
                                : a \in {Max(alpha, best)} }
                              : best \in {Max(best_score,
                                              -_negamax(play(b, color, Head(mvs)[1], Head(mvs)[2]),
                                                        depth - 1, -beta, -alpha,
                                                        Color_next(color)))}} : TRUE

\* _negamax(board, depth, alpha, beta, color)
_negamax(node, depth, alpha, beta, color) ==
    Bind(node, LAMBDA b :
    Bind(sort_by_value(b, IF depth <= 0 THEN takes(b, color, FALSE)
                          ELSE moves(b, color, FALSE), << >>),
         LAMBDA mvs : _negamax_loop(b, depth, alpha, beta, color, mvs, NEG_INFINITY)))

\* Option<(Pos, Vec<Action>)>: NoMove is Option::None
NoMove == <<NoPos, << >> >>

\* f32 arithmetic of the root score.  A root score is a pair <<c, u>> worth
\* c hundredths plus u / 2^30, 0 <= u < 2^29 (c a multiple of 50, or an
\* infinity): the inner scores are multiples of 0.5, the mobility term is not.
F32One == 2^30

F32Half == 2^29

msb(x) == CHOOSE k \in 0..30 : x \div 2^k = 1

\* x + num / den units rounded to 24 significant bits, ties to even
f32_round(x, num, den) ==
    IF x = 0 THEN 0
    ELSE LET step == IF msb(x) > 23 THEN 2^(msb(x) - 23) ELSE 1
             twice == 2 * ((x % step) * den + num)
         IN  IF \/ twice > step * den
                \/ twice = step * den /\ (x \div step) % 2 = 1
             THEN (x \div step + 1) * step
             ELSE (x \div step) * step

\* n as f32 / 100., in units of 2^-30
f32_div100(n) ==
    LET a == n * 2^14
        rest == (a % 25) * 2^14
    IN  f32_round((a \div 25) * 2^14 + rest \div 25, rest % 25, 25)

\* (own_moves / 100. - op_moves / 100.).min(1.)
mobility(own_moves, op_moves) ==
    LET d == f32_div100(own_moves) - f32_div100(op_moves)
    IN  Min(IF d >= 0 THEN f32_round(d, 0, 1) ELSE -f32_round(-d, 0, 1), F32One)

f32_norm(halves, units) == <<halves + units \div F32Half, units % F32Half>>

f32_neg(s) == IF s[2] = 0 THEN <<-s[1], 0>> ELSE <<-s[1] - 1, F32Half - s[2]>>

\* a non-negative sum rounded at the precision of its magnitude
f32_round_sum(s) ==
    IF s[1] = 0 THEN f32_norm(0, f32_round(s[2], 0, 1))
    ELSE LET ulp == 2^(msb(s[1]) + 6)
             twice == 2 * (s[2] % ulp)
         IN  IF twice > ulp \/ (twice = ulp /\ (s[2] \div ulp) % 2 = 1)
             THEN f32_norm(s[1], (s[2] \div ulp + 1) * ulp)
             ELSE f32_norm(s[1], (s[2] \div ulp) * ulp)

f32_add(raw, units) ==
    IF raw = INFINITY \/ raw = NEG_INFINITY THEN <<raw, 0>>
    ELSE LET s == f32_norm(raw \div 50, units)
             r == IF s[1] >= 0 THEN f32_round_sum(s)
                  ELSE f32_neg(f32_round_sum(f32_neg(s)))
         IN  <<50 * r[1], r[2]>>

f32_gt(s, t) == s[1] > t[1] \/ (s[1] = t[1] /\ s[2] > t[2])

\* the score of a root candidate: -_negamax, then the mobility term
root_score(raw, own_moves, op_moves) ==
    IF op_moves = 0 THEN <<0, 0>> ELSE f32_add(raw, mobility(own_moves, op_moves))

\* the scores the root loop gives to the sorted legal moves, in order
RECURSIVE root_scores(_, _, _, _, _)
root_scores(b, color, depth, mvs, alpha) ==
    IF mvs = << >> THEN << >>
    ELSE Bind(play(b, color, Head(mvs)[1], Head(mvs)[2]), LAMBDA curr_board :
         Bind(moves(curr_board, Color_next(color), TRUE), LAMBDA op :
              IF op = PanickedMoves THEN PanickedMoves[1]
              ELSE
         Bind(-_negamax(curr_board, depth - 1, NEG_INFINITY, -alpha, Color_next(color)),
              LAMBDA raw :
         Bind(root_score(raw, Len(moves(curr_board, color, FALSE)), Len(op)), LAMBDA score :
         Bind(root_scores(b, color, depth, Tail(mvs), Max(alpha, fadd(raw, -200))),
              LAMBDA rest :
              IF rest = PanickedMoves[1] THEN rest ELSE <<score>> \o rest)))))

\* `if score > best_score { best_move = Some(..); best_score = score; }`
RECURSIVE best_of(_, _, _, _)
best_of(mvs, scores, best_score, best_move) ==
    IF mvs = << >> THEN best_move
    ELSE IF f32_gt(Head(scores), best_score)
         THEN best_of(Tail(mvs), Tail(scores), Head(scores), Head(mvs))
         ELSE best_of(Tail(mvs), Tail(scores), best_score, best_move)

negamax_loop(b, color, depth, mvs) ==
    Bind(root_scores(b, color, depth, mvs, NEG_INFINITY), LAMBDA scores :
         IF scores = PanickedMoves[1] THEN scores
         ELSE best_of(mvs, scores, <<NEG_INFINITY, 0>>, NoMove))

\* a root that searches the pseudo-legal moves, like the inner nodes
negamax_of_pseudo_legal(b, color, depth) ==
    Bind(sort_by_value(b, moves(b, color, FALSE), << >>),
         LAMBDA mvs : negamax_loop(b, color, depth, mvs))

negamax(b, color, depth) ==
    IF moves(b, color, TRUE) = PanickedMoves THEN PanickedMoves[1]
    ELSE Bind(sort_by_value(b, moves(b, color, TRUE), << >>),
              LAMBDA mvs : negamax_loop(b, color, depth, mvs))

----------------------------------------------------------------------------
(* pgn.rs *)

piece2pgn(kind) ==
    CASE kind = "Pawn" -> "p"
      [] kind = "Knight" -> "N"
      [] kind = "Bishop" -> "B"
      [] kind = "Rook" -> "R"
      [] kind = "Queen" -> "Q"
      [] kind = "King" -> "K"

letters == <<"a", "b", "c", "d", "e", "f", "g", "h">>

digits == <<"0", "1", "2", "3", "4", "5", "6", "7", "8", "9">>

\* format!("{}", n) of an i32
RECURSIVE i32_text(_)
i32_text(n) ==
    IF n < 0 THEN "-" \o i32_text(-n)
    ELSE IF n < 10 THEN digits[n + 1]
    ELSE i32_text(n \div 10) \o digits[(n % 10) + 1]

\* what a caller sees when letters[pos.0 as usize] is out of range
PgnPanic == "<panic>"

pos2pgn(p) ==
    IF p[1] < 0 \/ p[1] >= Len(letters) THEN PgnPanic
    ELSE letters[p[1] + 1] \o i32_text(p[2])

RECURSIVE move2pgn_loop(_, _, _)
move2pgn_loop(p, actions, res) ==
    IF actions = << >> THEN res
    ELSE IF Head(actions).t = "Go"
         THEN (IF pos2pgn(p) = PgnPanic \/ pos2pgn(Head(actions).p) = PgnPanic
               THEN PgnPanic
               ELSE move2pgn_loop(p, Tail(actions),
                                  res \o pos2pgn(p) \o pos2pgn(Head(actions).p)))
    ELSE IF Head(actions).t = "Promotion"
         THEN move2pgn_loop(p, Tail(actions), res \o "=" \o piece2pgn(Head(actions).k))
    ELSE move2pgn_loop(p, Tail(actions), res)

\* a notation that also writes the square of a Take
move2pgn_with_takes(p, actions) ==
    IF actions = << >> THEN ""
    ELSE (IF Head(actions).t = "Take" THEN "x" \o pos2pgn(Head(actions).p) ELSE "")
         \o move2pgn_loop(p, <<Head(actions)>>, "")
         \o move2pgn_loop(p, Tail(actions), "")

move2pgn(p, actions) == move2pgn_loop(p, actions, "")

----------------------------------------------------------------------------
(* ai.rs: auto_play, and the invert_color its test calls *)

\* pgn_moves.iter().join(" ")
RECURSIVE join(_)
join(texts) ==
    IF texts = << >> THEN ""
    ELSE IF Len(texts) = 1 THEN texts[1]
    ELSE texts[1] \o " " \o join(Tail(texts))

\* every piece changes color and stays on its square
invert_color(b) ==
    [b EXCEPT !.squares =
        [n \in 1..Len(b.squares) |->
            IF b.squares[n] = Vacant THEN Vacant
            ELSE [b.squares[n] EXCEPT !.color = Color_next(b.squares[n].color)]]]

----------------------------------------------------------------------------
(* make_board.rs *)

\* the pawns' orientation: Pos(0, 1) for Black, Pos(0, -1) for White
Orientation(color) == IF color = "White" THEN <<0, -1>> ELSE <<0, 1>>

\* a factory that lays the White back rank in list order from its last square
from_backrank_rotated(pieces) ==
    LET w == Len(pieces)
        len == w * 8
        black(n) == IF n < w THEN Officer("Black", pieces[n + 1])
                    ELSE Pawn("Black", <<0, 1>>, "CanLeap")
        white(n) == IF n < w THEN Officer("White", pieces[n + 1])
                    ELSE Pawn("White", <<0, -1>>, "CanLeap")
    IN [width |-> w, height |-> 8,
        squares |-> [n \in 1..len |->
                        IF n - 1 < 2 * w THEN black(n - 1)
                        ELSE IF len - n < 2 * w THEN white(len - n)
                        ELSE Vacant]]

\* squares[i] for Black and squares[len - i - 1] for White, i over the back
\* rank followed by pieces.len() pawns
from_backrank(pieces) ==
    LET w == Len(pieces)
        len == w * 8
        black(n) == IF n < w THEN Officer("Black", pieces[n + 1])
                    ELSE Pawn("Black", <<0, 1>>, "CanLeap")
        white(n) == IF n < w THEN Officer("White", pieces[w - n])
                    ELSE Pawn("White", <<0, -1>>, "CanLeap")
    IN [width |-> w, height |-> 8,
        squares |-> [n \in 1..len |->
                        IF n - 1 < 2 * w THEN black(n - 1)
                        ELSE IF len - n < 2 * w THEN white(len - n)
                        ELSE Vacant]]

standard_board ==
    from_backrank(<<"Rook", "Knight", "Bishop", "Queen", "King", "Bishop", "Knight", "Rook">>)

halved_board == from_backrank(<<"Rook", "Knight", "Bishop", "King", "Queen">>)

----------------------------------------------------------------------------
(* Bounded families of boards: the inputs of the pure operations.          *)
(* Pawns stand where play can bring them: CanLeap on the second rank of    *)
(* their side, JustLeaped two ranks further, never on a back rank; at most *)
(* one pawn is JustLeaped.                                                  *)

FamW == 3

FamH == 5

Absent == <<NoPos, Vacant>>

Squares(w, h) == {<<x, y>> : x \in 0..(w - 1), y \in 0..(h - 1)}

Advance(color, h, y) == IF color = "White" THEN (h - 2) - y ELSE y - 1

PawnStatuses(color, h, y) ==
    LET a == Advance(color, h, y)
    IN IF a < 0 \/ a >= h - 2 THEN {}
       ELSE IF a = 0 THEN {"CanLeap"}
       ELSE IF a = 2 THEN {"JustLeaped", "CannotLeap"}
       ELSE {"CannotLeap"}

Pawns(color, w, h) ==
    UNION {{<<p, Pawn(color, Orientation(color), st)>> : st \in PawnStatuses(color, h, p[2])}
           : p \in Squares(w, h)}

Officers(color, w, h, kinds) == {<<p, Officer(color, k)>> : p \in Squares(w, h), k \in kinds}

RECURSIVE put_all(_, _)
put_all(b, placed) ==
    IF placed = << >> THEN b
    ELSE put_all(IF Head(placed) = Absent THEN b ELSE set(b, Head(placed)[1], Head(placed)[2]),
                 Tail(placed))

Distinct(placed) ==
    \A m, n \in 1..Len(placed) :
        (m < n /\ placed[m] # Absent /\ placed[n] # Absent) => placed[m][1] # placed[n][1]

OneLeaper(placed) ==
    Cardinality({n \in 1..Len(placed) : placed[n][2].status = "JustLeaped"}) <= 1

Family(w, h, wks, bks, wes, bes) ==
    {put_all(new(w, h), t) : t \in {u \in wks \X bks \X wes \X bes : Distinct(u) /\ OneLeaper(u)}}

Extras(color, w, h, kinds) ==
    {Absent} \cup Pawns(color, w, h) \cup Officers(color, w, h, kinds)

King(color, p) == <<p, Officer(color, "King")>>

QueryBoards ==
    Family(FamW, FamH, {King("White", <<1, FamH - 1>>)}, {King("Black", <<1, 0>>)},
           Extras("White", FamW, FamH, {"Knight", "Rook"}),
           Extras("Black", FamW, FamH, {"Bishop", "Queen"}))

None == << >>

Idle ==
    /\ turn = 0 /\ leaped = {}
    /\ req = None /\ out = None

----------------------------------------------------------------------------
(* Spec: a ChossGame played ply after ply with legal moves, colors          *)
(* alternating with the parity of `turn`.  `leaped` records, for every pawn *)
(* that leaped and is still on the board as a pawn, where it stands, the    *)
(* square it passed over and the ply of the leap.                           *)

GameW == 2

GameH == 5

MaxTurn == 4

QuietPawns(color) == {pl \in Pawns(color, GameW, GameH) : pl[2].status # "JustLeaped"}

StartBoards ==
    {b \in Family(GameW, GameH, {King("White", <<0, GameH - 1>>)},
                  {King("Black", <<GameW - 1, 0>>)},
                  {Absent} \cup QuietPawns("White"), {Absent} \cup QuietPawns("Black")) :
        is_checked(b, "Black") = "false"}

Init == board \in StartBoards /\ Idle

turn_color == IF turn % 2 = 0 THEN "White" ELSE "Black"

IsLeap(b, origin, actions) ==
    /\ get(b, origin) \notin {OutOfBoard, Vacant}
    /\ get(b, origin).piece = "Pawn"
    /\ actions = <<Go(add(origin, mul(get(b, origin).orientation, 2)))>>

Followed(origin, actions) ==
    {[e EXCEPT !.at = last_go(origin, actions)] :
        e \in {f \in leaped : f.at = origin /\ \A n \in 1..Len(actions) : actions[n].t # "Promotion"}}
    \cup {e \in leaped : /\ e.at # origin
                         /\ \A n \in 1..Len(actions) :
                               actions[n].t \in {"Go", "Take"} => actions[n].p # e.at}

\* self.board = self.board.play(self.turn_color(), pos, actions); self.turn += 1
ChossGame_play_on(origin, actions) ==
    /\ board' = play(board, turn_color, origin, actions)
    /\ turn' = turn + 1
    /\ leaped' = Followed(origin, actions) \cup
                 (IF IsLeap(board, origin, actions)
                  THEN {[at |-> actions[1].p,
                         over |-> add(origin, get(board, origin).orientation),
                         color |-> get(board, origin).color,
                         ply |-> turn]}
                  ELSE {})

Applied(origin, actions) ==
    /\ ChossGame_play_on(origin, actions)
    /\ UNCHANGED <<req, out>>

ChossGame_play(origin, actions) ==
    /\ turn < MaxTurn
    /\ Applied(origin, actions)

Next ==
    \E mvs \in {moves(board, turn_color, TRUE)} :
        \E n \in 1..Len(mvs) : ChossGame_play(mvs[n][1], mvs[n][2])

Spec == Init /\ [][Next]_vars

----------------------------------------------------------------------------
(* SpecOpening: a ChossGame from the standard board, for its first plies *)

OpeningPlies == 2

InitOpening == board = standard_board /\ Idle

PlayOpening ==
    /\ turn < OpeningPlies
    /\ \E mvs \in {moves(board, turn_color, TRUE)} :
          \E n \in 1..Len(mvs) : ChossGame_play(mvs[n][1], mvs[n][2])

NextOpening == PlayOpening

SpecOpening == InitOpening /\ [][NextOpening]_vars

----------------------------------------------------------------------------
(* SpecMatch: alternating play of generated king-safe moves, White first,   *)
(* from the boards from_backrank builds out of a two-piece back rank, for   *)
(* MatchPlies plies.                                                        *)

MatchPlies == 6

MatchRanks == {<<"King", "Rook">>, <<"Queen", "King">>}

InitMatch == board \in {from_backrank(pieces) : pieces \in MatchRanks} /\ Idle

PlayMatch ==
    /\ turn < MatchPlies
    /\ \E mvs \in {moves(board, turn_color, TRUE)} :
          \E n \in 1..Len(mvs) : Applied(mvs[n][1], mvs[n][2])

NextMatch == PlayMatch

SpecMatch == InitMatch /\ [][NextMatch]_vars

----------------------------------------------------------------------------
(* SpecHuman: ChossGame::playable_move asked for a player, an origin and a  *)
(* destination at any point of the first HumanPlies plies of a game.        *)

HumanPlies == 2

\* ChossGame::safe_moves(piece, from)
ChossGame_safe_moves(piece, from) ==
    filter_safe_moves(board, turn_color, from, Piece_moves(piece, board, from, turn_color))

NoMoves == <<"None">>

\* ChossGame::playable_moves(from) of a game whose human plays `player`
ChossGame_playable_moves(player, from) ==
    IF /\ get(board, from) \notin {OutOfBoard, Vacant}
       /\ get(board, from).color = player
       /\ player = turn_color
    THEN <<"Some", ChossGame_safe_moves(get(board, from), from)>>
    ELSE NoMoves

\* the first of the moves that holds Go(to), None without one
RECURSIVE first_going(_, _)
first_going(mvs, to) ==
    IF mvs = << >> THEN None
    ELSE IF \E n \in 1..Len(Head(mvs)) : Head(mvs)[n] = Go(to) THEN Head(mvs)
    ELSE first_going(Tail(mvs), to)

\* the last of the moves that holds Go(to), None without one
RECURSIVE last_going(_, _)
last_going(mvs, to) ==
    IF mvs = << >> THEN None
    ELSE IF last_going(Tail(mvs), to) # None THEN last_going(Tail(mvs), to)
    ELSE IF \E n \in 1..Len(Head(mvs)) : Head(mvs)[n] = Go(to) THEN Head(mvs)
    ELSE None

\* a playable_move that keeps the last matching move
ChossGame_playable_move_last(player, from, to) ==
    Bind(ChossGame_playable_moves(player, from), LAMBDA found :
         IF found = NoMoves THEN None ELSE last_going(found[2], to))

\* ChossGame::playable_move(from, to)
ChossGame_playable_move(player, from, to) ==
    Bind(ChossGame_playable_moves(player, from), LAMBDA found :
         IF found = NoMoves THEN None ELSE first_going(found[2], to))

PlayHuman ==
    /\ req = None
    /\ turn < HumanPlies
    /\ \E mvs \in {moves(board, turn_color, TRUE)} :
          \E n \in 1..Len(mvs) : Applied(mvs[n][1], mvs[n][2])

CallPlayableMove(player, from, to) ==
    /\ req = None
    /\ req' = <<"playable_move", player, from, to>>
    /\ out' = ChossGame_playable_move(player, from, to)
    /\ UNCHANGED <<board, turn, leaped>>

NextHuman ==
    \/ PlayHuman
    \/ \E player \in Colors, from \in Positions(board) \cup {<<-1, 0>>}, to \in Positions(board) :
          CallPlayableMove(player, from, to)

SpecHuman == Init /\ [][NextHuman]_vars

----------------------------------------------------------------------------
(* SpecMoves: Board::moves and Board::takes called on a board *)

InitMoves == board \in QueryBoards /\ Idle

CallMoves(color, safe_moves) ==
    /\ req = None
    /\ req' = <<"moves", color, safe_moves>>
    /\ out' = moves(board, color, safe_moves)
    /\ UNCHANGED <<board, turn, leaped>>

CallTakes(color, safe_moves) ==
    /\ req = None
    /\ req' = <<"takes", color, safe_moves>>
    /\ out' = takes(board, color, safe_moves)
    /\ UNCHANGED <<board, turn, leaped>>

NextMoves ==
    \E color \in Colors, safe_moves \in BOOLEAN :
        CallMoves(color, safe_moves) \/ CallTakes(color, safe_moves)

SpecMoves == InitMoves /\ [][NextMoves]_vars

----------------------------------------------------------------------------
(* SpecCheck: Board::is_checked called on a board; either King may be missing *)

CheckBoards ==
    Family(FamW, FamH, {King("White", <<1, FamH - 1>>), Absent}, {King("Black", <<1, 0>>), Absent},
           Extras("White", FamW, FamH, {"Rook"}), Extras("Black", FamW, FamH, {"Queen"}))

InitCheck == board \in CheckBoards /\ Idle

CallIsChecked(color) ==
    /\ req = None
    /\ req' = <<"is_checked", color>>
    /\ out' = is_checked(board, color)
    /\ UNCHANGED <<board, turn, leaped>>

NextCheck == \E color \in Colors : CallIsChecked(color)

SpecCheck == InitCheck /\ [][NextCheck]_vars

----------------------------------------------------------------------------
(* SpecPlay: Board::play called on a board, with the candidates the          *)
(* generators give for either color and with origins and moves they never   *)
(* give (an empty or out-of-bound origin, a lone Take, a lone Promotion).    *)

PlayBoards ==
    Family(FamW, FamH, {King("White", <<1, FamH - 1>>)}, {King("Black", <<1, 0>>)},
           Extras("White", FamW, FamH, {"Knight"}), Extras("Black", FamW, FamH, {}))

OddOrigins == {<<0, 0>>, <<1, 2>>, <<FamW, 1>>}

OddMoves ==
    { <<Take(<<1, 3>>)>>, <<Go(<<1, 3>>)>>, <<Promotion("Queen")>>,
      <<Take(<<0, 1>>), Take(<<2, 1>>)>> }

InitPlay == board \in PlayBoards /\ Idle

CallPlay(color, origin, actions) ==
    /\ req = None
    /\ req' = <<"play", color, origin, actions>>
    /\ out' = play(board, color, origin, actions)
    /\ UNCHANGED <<board, turn, leaped>>

PlayGenerated ==
    /\ req = None
    /\ \E color, owner \in Colors :
          \E mvs \in {moves(board, owner, FALSE)} :
              \E k \in 1..Len(mvs) : CallPlay(color, mvs[k][1], mvs[k][2])

PlayOdd ==
    \E color \in Colors, origin \in OddOrigins, actions \in OddMoves :
        CallPlay(color, origin, actions)

NextPlay == PlayGenerated \/ PlayOdd

SpecPlay == InitPlay /\ [][NextPlay]_vars

----------------------------------------------------------------------------
(* SpecSearch: negamax called for the side to move, on small boards with    *)
(* both Kings, at every depth up to MaxDepth.  The side that has just moved *)
(* is not in check, as after any legal move.                                *)

SearchW == 2

SearchH == 3

MaxDepth == 5

SearchBoards ==
    Family(SearchW, SearchH,
           {King("White", p) : p \in Squares(SearchW, SearchH)},
           {King("Black", p) : p \in Squares(SearchW, SearchH)},
           {Absent} \cup Pawns("White", SearchW, SearchH),
           {Absent} \cup Officers("Black", SearchW, SearchH, {"Rook", "Queen"}))

InitSearch == board \in SearchBoards /\ Idle

CallNegamax(color, depth) ==
    /\ req = None
    /\ is_checked(board, Color_next(color)) = "false"
    /\ req' = <<"negamax", color, depth>>
    /\ out' = negamax(board, color, depth)
    /\ UNCHANGED <<board, turn, leaped>>

NextSearch == \E color \in Colors, depth \in 0..MaxDepth : CallNegamax(color, depth)

SpecSearch == InitSearch /\ [][NextSearch]_vars

----------------------------------------------------------------------------
(* Piece::moves and Piece::takes of one piece, on boards of up to three pieces *)

PieceW == 3

PieceH == 5

Officer_kinds == {"Knight", "Bishop", "Rook", "Queen", "King"}

Pieces(color, kinds) ==
    Pawns(color, PieceW, PieceH) \cup Officers(color, PieceW, PieceH, kinds)

\* a White piece of any kind, a Black pawn, knight or queen, and maybe a White rook
PieceBoards ==
    Family(PieceW, PieceH, Pieces("White", Officer_kinds), Pieces("Black", {"Knight", "Queen"}),
           {Absent} \cup Officers("White", PieceW, PieceH, {"Rook"}), {Absent})

InitPiece == board \in PieceBoards /\ Idle

CallPieceMoves(p) ==
    /\ req = None
    /\ get(board, p) # Vacant
    /\ req' = <<"Piece::moves", p>>
    /\ out' = Piece_moves(get(board, p), board, p, get(board, p).color)
    /\ UNCHANGED <<board, turn, leaped>>

CallPieceTakes(p) ==
    /\ req = None
    /\ get(board, p) # Vacant
    /\ req' = <<"Piece::takes", p>>
    /\ out' = Piece_takes(get(board, p), board, p, get(board, p).color)
    /\ UNCHANGED <<board, turn, leaped>>

NextPiece == \E p \in Positions(board) : CallPieceMoves(p) \/ CallPieceTakes(p)

SpecPiece == InitPiece /\ [][NextPiece]_vars

----------------------------------------------------------------------------
(* Board::begin_turn alone, on boards where both colors may hold a pawn that
   just leaped *)

TurnW == 2

TurnH == 5

TurnPieces(color, kind) ==
    Pawns(color, TurnW, TurnH) \cup Officers(color, TurnW, TurnH, {kind})

TurnBoards ==
    {put_all(new(TurnW, TurnH), t) :
        t \in {u \in TurnPieces("White", "Rook") \X TurnPieces("Black", "Knight")
                     \X ({Absent} \cup Pawns("White", TurnW, TurnH))
                     \X ({Absent} \cup Pawns("Black", TurnW, TurnH)) : Distinct(u)}}

InitTurn == board \in TurnBoards /\ Idle

CallBeginTurn(color) ==
    /\ req = None
    /\ req' = <<"begin_turn", color>>
    /\ out' = begin_turn(board, color)
    /\ UNCHANGED <<board, turn, leaped>>

NextTurn == \E color \in Colors : CallBeginTurn(color)

SpecTurn == InitTurn /\ [][NextTurn]_vars

----------------------------------------------------------------------------
(* Board::in_bound and Board::get, asked about positions in and around boards
   of every size up to GridW x GridH *)

GridW == 3

GridH == 3

GridBoards ==
    UNION {{put_all(new(w, h), t) :
               t \in {u \in Officers("White", w, h, {"Rook"})
                            \X ({Absent} \cup Officers("Black", w, h, {"Knight"})) :
                         Distinct(u)}} :
           w \in 1..GridW, h \in 1..GridH}

\* the positions asked about: two squares around the largest board
Queries == (-2..(GridW + 1)) \X (-2..(GridH + 1))

InitGrid == board \in GridBoards /\ Idle

CallInBound(p) ==
    /\ req = None
    /\ req' = <<"in_bound", p>>
    /\ out' = in_bound(board, p)
    /\ UNCHANGED <<board, turn, leaped>>

CallGet(p) ==
    /\ req = None
    /\ req' = <<"get", p>>
    /\ out' = get(board, p)
    /\ UNCHANGED <<board, turn, leaped>>

NextGrid == \E p \in Queries : CallInBound(p) \/ CallGet(p)

SpecGrid == InitGrid /\ [][NextGrid]_vars

----------------------------------------------------------------------------
(* make_board.rs: the factories, and from_backrank on every list of up to
   MaxRank officers *)

MaxRank == 3

RECURSIVE Lists(_, _)
Lists(kinds, n) ==
    IF n = 0 THEN {<< >>}
    ELSE {<< >>} \cup {<<k>> \o l : k \in kinds, l \in Lists(kinds, n - 1)}

BackRanks == Lists(Officer_kinds, MaxRank) \ {<< >>}

InitFactory == board = new(1, 1) /\ Idle

CallFromBackrank(pieces) ==
    /\ req = None
    /\ req' = <<"from_backrank", pieces>>
    /\ out' = from_backrank(pieces)
    /\ UNCHANGED <<board, turn, leaped>>

CallStandardBoard ==
    /\ req = None
    /\ req' = <<"standard_board">>
    /\ out' = standard_board
    /\ UNCHANGED <<board, turn, leaped>>

CallHalvedBoard ==
    /\ req = None
    /\ req' = <<"halved_board">>
    /\ out' = halved_board
    /\ UNCHANGED <<board, turn, leaped>>

NextFactory ==
    \/ \E pieces \in BackRanks : CallFromBackrank(pieces)
    \/ CallStandardBoard
    \/ CallHalvedBoard

SpecFactory == InitFactory /\ [][NextFactory]_vars

----------------------------------------------------------------------------
(* pos.rs: Add, Mul and neighbors on small vectors *)

MaxCoord == 1

Vectors == (-MaxCoord..MaxCoord) \X (-MaxCoord..MaxCoord)

UnitDirections == {LOS[n] : n \in 1..Len(LOS)}

InitPos == board = new(1, 1) /\ Idle

CallAdd(a, b) ==
    /\ req = None
    /\ req' = <<"add", a, b>>
    /\ out' = add(a, b)
    /\ UNCHANGED <<board, turn, leaped>>

CallMul(a, k) ==
    /\ req = None
    /\ req' = <<"mul", a, k>>
    /\ out' = mul(a, k)
    /\ UNCHANGED <<board, turn, leaped>>

CallNeighbors(d) ==
    /\ req = None
    /\ req' = <<"neighbors", d>>
    /\ out' = neighbors(d)
    /\ UNCHANGED <<board, turn, leaped>>

NextPos ==
    \/ \E a, b \in Vectors : CallAdd(a, b)
    \/ \E a \in Vectors, k \in -2..2 : CallMul(a, k)
    \/ \E d \in UnitDirections : CallNeighbors(d)

SpecPos == InitPos /\ [][NextPos]_vars

----------------------------------------------------------------------------
(* move2pgn on the moves a piece of an 8x8 board can be handed *)

Files == 0..(Len(letters) - 1)

Ranks == 0..7

PgnSquares == Files \X Ranks

\* the squares one or two ranks, or one diagonal step, away
PgnTargets(p) ==
    {q \in PgnSquares :
        \/ q[1] = p[1] /\ q[2] - p[2] \in {-2, -1, 1, 2}
        \/ q[1] - p[1] \in {-1, 1} /\ q[2] - p[2] \in {-1, 1}}

PgnMoves(p) ==
    UNION {{ <<Go(q)>>,
             <<Go(q), Take(<<q[1], p[2]>>)>>,
             <<Go(q), Take(<<q[1], p[2]>>), Promotion("Queen")>> }
           \cup {<<Go(q), Promotion(k)>> : k \in Officer_kinds \cup {"Pawn"}}
           : q \in PgnTargets(p)}
    \cup {<< >>, <<Take(p)>>, <<Promotion("Knight")>>, <<Go(p), Go(<<0, 0>>)>>}

InitPgn == board = new(1, 1) /\ Idle

CallMove2Pgn(p, actions) ==
    /\ req = None
    /\ req' = <<"move2pgn", p, actions>>
    /\ out' = move2pgn(p, actions)
    /\ UNCHANGED <<board, turn, leaped>>

NextPgn == \E p \in PgnSquares : \E actions \in PgnMoves(p) : CallMove2Pgn(p, actions)

SpecPgn == InitPgn /\ [][NextPgn]_vars

----------------------------------------------------------------------------
(* auto_play from the boards of SpecSearch *)

SelfPlayDepth == 1

InitSelfPlay == board \in SearchBoards /\ Idle

\* auto_play(board, starting_player, depth) is entered: pgn_moves is empty
\* (out), player is starting_player (req[2]) and turn is 0
CallAutoPlay(color, depth) ==
    /\ req = None
    /\ is_checked(board, Color_next(color)) = "false"
    /\ req' = <<"auto_play", color, depth, "loop">>
    /\ out' = << >>
    /\ UNCHANGED <<board, turn, leaped>>

\* a loop of auto_play that tests the number of turns before counting the
\* turn just played
AutoPlayTurn_counting_late ==
    /\ req # None
    /\ req[4] = "loop"
    /\ \E move_opt \in {negamax(board, req[2], req[3])} :
          IF move_opt = NoMove
          THEN /\ req' = [req EXCEPT ![4] = "return"]
               /\ out' = join(out)
               /\ UNCHANGED <<board, turn, leaped>>
          ELSE /\ board' = play(board, req[2], move_opt[1], move_opt[2])
               /\ turn' = turn + 1
               /\ IF turn >= 100
                  THEN /\ req' = [req EXCEPT ![4] = "return"]
                       /\ out' = join(Append(out, move2pgn(move_opt[1], move_opt[2])))
                  ELSE /\ req' = [req EXCEPT ![2] = Color_next(req[2])]
                       /\ out' = Append(out, move2pgn(move_opt[1], move_opt[2]))
               /\ UNCHANGED leaped

\* one turn of the loop of auto_play; it ends when negamax returns None or
\* after 100 turns, and returns the joined texts
AutoPlayTurn ==
    /\ req # None
    /\ req[4] = "loop"
    /\ \E move_opt \in {negamax(board, req[2], req[3])} :
          IF move_opt = NoMove
          THEN /\ req' = [req EXCEPT ![4] = "return"]
               /\ out' = join(out)
               /\ UNCHANGED <<board, turn, leaped>>
          ELSE /\ board' = play(board, req[2], move_opt[1], move_opt[2])
               /\ turn' = turn + 1
               /\ IF turn + 1 >= 100
                  THEN /\ req' = [req EXCEPT ![4] = "return"]
                       /\ out' = join(Append(out, move2pgn(move_opt[1], move_opt[2])))
                  ELSE /\ req' = [req EXCEPT ![2] = Color_next(req[2])]
                       /\ out' = Append(out, move2pgn(move_opt[1], move_opt[2]))
               /\ UNCHANGED leaped

NextSelfPlay ==
    \/ \E color \in Colors, depth \in 0..SelfPlayDepth : CallAutoPlay(color, depth)
    \/ AutoPlayTurn

SpecSelfPlay == InitSelfPlay /\ [][NextSelfPlay]_vars

\* what a turn of the loop does to turn and req: it plays a ply and goes on
\* with the next player, or it returns
LoopTurn ==
    /\ req # None
    /\ req[4] = "loop"
    /\ \/ /\ turn' = turn + 1
          /\ req' \in {[req EXCEPT ![2] = Color_next(req[2])], [req EXCEPT ![4] = "return"]}
       \/ /\ turn' = turn
          /\ req' = [req EXCEPT ![4] = "return"]

\* the loop of auto_play is sequential code: while it has not returned it
\* takes its next turn
FairSelfPlay == SpecSelfPlay /\ WF_<<turn, req>>(LoopTurn)

----------------------------------------------------------------------------
(* _negamax entered out of depth (depth <= 0) for either color and every    *)
(* window with edges among WindowEdges, on the boards of SpecSearch that    *)
(* hold a White pawn and a Black Rook or Queen beside the Kings.            *)

MaxQuiesce == 2

WindowEdges == {NEG_INFINITY, -300, 300, INFINITY}

QuiesceBoards ==
    Family(SearchW, SearchH,
           {King("White", p) : p \in Squares(SearchW, SearchH)},
           {King("Black", p) : p \in Squares(SearchW, SearchH)},
           Pawns("White", SearchW, SearchH),
           Officers("Black", SearchW, SearchH, {"Rook", "Queen"}))

InitQuiesce == board \in QuiesceBoards /\ Idle

Call_negamax(depth, alpha, beta, color) ==
    /\ req = None
    /\ req' = <<"_negamax", depth, alpha, beta, color>>
    /\ out' = _negamax(board, depth, alpha, beta, color)
    /\ UNCHANGED <<board, turn, leaped>>

NextQuiesce ==
    \E depth \in (-MaxQuiesce)..0, alpha \in WindowEdges, beta \in WindowEdges, color \in Colors :
        Call_negamax(depth, alpha, beta, color)

SpecQuiesce == InitQuiesce /\ [][NextQuiesce]_vars

----------------------------------------------------------------------------
(* One line of the recursion of _negamax below depth 0: each step descends  *)
(* into one candidate of board.takes(color, false) with the next color, and *)
(* the line returns where the loop finds no candidate.  turn counts the     *)
(* plies of the line, req holds the color and the board it started from.    *)

LineW == 2

LineH == 5

LineBoards ==
    Family(LineW, LineH,
           {King("White", <<0, LineH - 1>>), King("White", <<1, LineH - 2>>)},
           {King("Black", <<1, 0>>), King("Black", <<0, 1>>)},
           Extras("White", LineW, LineH, {"Rook"}),
           Extras("Black", LineW, LineH, {"Queen", "Knight"}))

line_color == IF turn % 2 = 0 THEN req[2] ELSE Color_next(req[2])

InitLine ==
    /\ board \in LineBoards
    /\ turn = 0 /\ leaped = {} /\ out = None
    /\ \E color \in Colors : req = <<"_negamax", color, board>>

\* for (pos, actions) in moves: _negamax(&board.play(color, pos, &actions), depth - 1, ..)
Descend ==
    /\ out = None
    /\ \E mvs \in {takes(board, line_color, FALSE)} :
          \E n \in DOMAIN mvs : board' = play(board, line_color, mvs[n][1], mvs[n][2])
    /\ turn' = turn + 1
    /\ UNCHANGED <<leaped, req, out>>

\* no candidate: best_score.max(mat_score(board) * sign)
Return ==
    /\ out = None
    /\ takes(board, line_color, FALSE) = << >>
    /\ out' = <<_negamax(board, 0, NEG_INFINITY, INFINITY, line_color)>>
    /\ UNCHANGED <<board, turn, leaped, req>>

NextLine == Descend \/ Return

SpecLine == InitLine /\ [][NextLine]_vars

FairLine == SpecLine /\ WF_vars(NextLine)

----------------------------------------------------------------------------
(* SpecLoop: the systems of game.rs that decide which move is played and    *)
(* when the game ends or goes back: start_game, place_pieces,               *)
(* mouse_button_input, play_move, start_ai_turn, undo and end_game, one run *)
(* of one system per step.  `req` holds the Game resource, `turn` is        *)
(* ChossGame::turn and `out` records a failed unwrap.  The squares are not  *)
(* followed: how many candidates the search returns, whether the score fell *)
(* enough for should_undo and whether a move leaves the other side without  *)
(* a move are choices; cached_moves is followed by its length and           *)
(* last_state by the turn of the saved game.  The human player is White     *)
(* (ChossGame::new(PieceColor::White)), so the AI moves on odd turns.       *)

\* bound on ChossGame::turn within one game
LoopPlies == 9

\* the least ChossGame::turn at which a game from the standard board can be
\* over: in each of the 8,023 positions of its first three plies the side to
\* move has a king-safe move
EarliestEnd == 4

\* moves.into_iter().take(3)
Candidates == 3

\* Game::new(): #[derive(Default)], GameStatus::default() is Preparing;
\* `undoing` is the UndoingComp entity, `undos` counts the undos since
\* last_state was saved and `decided` is the branch of the last AI decision
\* ("undone" once an undo took it back)
Game_new ==
    [status |-> "Preparing", opponent |-> 0, to_play |-> FALSE,
     cached_moves |-> 0, turn |-> 0, last_state |-> None,
     undoing |-> "none", undos |-> 0, decided |-> "none"]

InitLoop ==
    /\ board = standard_board
    /\ turn = 0 /\ leaped = {}
    /\ req = Game_new
    /\ out = None

\* called Option::unwrap() on a None value
UnwrapFailed == <<"unwrap on None">>

\* choss.player != choss.turn_color()
AiToMove == turn % 2 = 1

Game_should_undo_any_opponent(drop) == req.cached_moves > 0 /\ drop

Game_should_undo_empty_cache(drop) == req.opponent = 1 /\ drop

\* self.opponent == 1 && self.cached_moves.len() > 0, then
\* last_eval - score > 2. && score < 2. (`drop`; last_eval is Some from
\* start_game on)
Game_should_undo(drop) == req.opponent = 1 /\ req.cached_moves > 0 /\ drop

start_game ==
    /\ out = None
    /\ req.status = "Preparing"
    /\ turn' = 0
    /\ req' = [req EXCEPT !.cached_moves = 0, !.status = "Placing"]
    /\ UNCHANGED <<board, leaped, out>>

place_pieces ==
    /\ out = None
    /\ req.status = "Placing"
    /\ req' = [req EXCEPT !.status = "Playing"]
    /\ UNCHANGED <<board, turn, leaped, out>>

\* choss.playable_move(old_pos, pos) is Some only on the player's turn
mouse_button_input ==
    /\ out = None
    /\ req.status = "Playing"
    /\ ~AiToMove
    /\ turn < LoopPlies
    /\ req' = [req EXCEPT !.to_play = TRUE]
    /\ UNCHANGED <<board, turn, leaped, out>>

\* the statuses play_move can leave after a move of the side `ai`
Outcomes(ai, after) ==
    {"Playing"} \cup
        IF after >= EarliestEnd THEN {IF ai THEN "Loss" ELSE "Win", "Draw"} ELSE {}

play_move ==
    /\ out = None
    /\ req.undoing = "none"
    /\ req.to_play
    /\ turn' = turn + 1
    /\ \E over \in Outcomes(AiToMove, turn + 1) :
          req' = [req EXCEPT !.to_play = FALSE,
                             !.status = IF over = "Playing" THEN @ ELSE over]
    /\ UNCHANGED <<board, leaped, out>>

start_ai_turn ==
    /\ out = None
    /\ req.undoing = "none"
    /\ req.status = "Playing"
    /\ AiToMove
    /\ ~req.to_play
    /\ turn < LoopPlies
    /\ IF turn = req.turn
       THEN \* cached_moves.pop().unwrap()
            IF req.cached_moves = 0
            THEN out' = UnwrapFailed /\ UNCHANGED req
            ELSE /\ req' = [req EXCEPT !.cached_moves = @ - 1, !.to_play = TRUE,
                                       !.decided = "cached"]
                 /\ UNCHANGED out
       ELSE \* filtered_moves holds 1..3 candidates, one is popped
            /\ \E n \in 1..Candidates, drop \in BOOLEAN :
                  IF Game_should_undo(drop)
                  THEN req' = [req EXCEPT !.undoing = "ascending"]
                  ELSE req' = [req EXCEPT !.last_state = <<turn>>, !.to_play = TRUE,
                                          !.cached_moves = n - 1, !.turn = turn,
                                          !.undos = 0, !.decided = "fresh"]
            /\ UNCHANGED out
    /\ UNCHANGED <<board, turn, leaped>>

\* the zenith: *choss = game.last_state.clone().unwrap(); status = Placing
undo_zenith ==
    /\ out = None
    /\ req.undoing = "ascending"
    /\ IF req.last_state = None
       THEN out' = UnwrapFailed /\ UNCHANGED <<turn, req>>
       ELSE /\ turn' = req.last_state[1]
            /\ req' = [req EXCEPT !.status = "Placing", !.undoing = "descending",
                                  !.undos = @ + 1, !.decided = "undone"]
            /\ UNCHANGED out
    /\ UNCHANGED <<board, leaped>>

\* undoing is over: commands.entity(entity).despawn()
undo_over ==
    /\ out = None
    /\ req.undoing = "descending"
    /\ req' = [req EXCEPT !.undoing = "none"]
    /\ UNCHANGED <<board, turn, leaped, out>>

end_game ==
    /\ out = None
    /\ req.status \in {"Win", "Loss", "Draw"}
    /\ req' = IF req.opponent = 0
              THEN [req EXCEPT !.opponent = 1, !.status = "Preparing"]
              ELSE [req EXCEPT !.status = IF @ = "Win" THEN "Ending" ELSE "Preparing"]
    /\ UNCHANGED <<board, turn, leaped, out>>

NextLoop ==
    \/ start_game
    \/ place_pieces
    \/ mouse_button_input
    \/ play_move
    \/ start_ai_turn
    \/ undo_zenith
    \/ undo_over
    \/ end_game

SpecLoop == InitLoop /\ [][NextLoop]_vars

----------------------------------------------------------------------------
(* SpecStatus: play_move, mouse_button_input and start_ai_turn of game.rs  *)
(* on boards whose squares are followed.  `req` holds Game::status and      *)
(* Game::to_play; the human player is White.  The move the AI search       *)
(* returns is one of board.moves(color, true), any of them here; `out`      *)
(* records a search started without a candidate (moves[0] out of bounds).   *)
(* A game that is over stays over.                                          *)

StatusW == 3

StatusH == 3

\* bound on ChossGame::turn
StatusPlies == 3

StatusBoards ==
    {b \in Family(StatusW, StatusH, {King("White", <<0, StatusH - 1>>)},
                  {King("Black", <<StatusW - 1, 0>>)},
                  Extras("White", StatusW, StatusH, {"Queen", "Rook"}),
                  {Absent} \cup Extras("Black", StatusW, StatusH, {"Rook"})) :
        is_checked(b, "Black") = "false"}

InitStatus ==
    /\ board \in StatusBoards
    /\ turn = 0 /\ leaped = {}
    /\ req = [status |-> "Playing", to_play |-> None]
    /\ out = None

\* choss.player
Human == "White"

NoCandidate == <<"index out of bounds">>

game_over_by_pseudo_moves(b, color, status) ==
    IF moves(b, Color_next(color), FALSE) = << >>
    THEN IF is_checked(b, Color_next(color)) = "true"
         THEN IF color = Human THEN "Win" ELSE "Loss"
         ELSE "Draw"
    ELSE status

\* play_move, "check if the game is over": the status after `color` moved to b
game_over(b, color, status) ==
    IF moves(b, Color_next(color), TRUE) = << >>
    THEN IF is_checked(b, Color_next(color)) = "true"
         THEN IF color = Human THEN "Win" ELSE "Loss"
         ELSE "Draw"
    ELSE status

\* choss.playable_move(old_pos, pos) on a click on `from` then on `to`
mouse_button_clicks ==
    /\ out = None
    /\ req.status = "Playing"
    /\ turn < StatusPlies
    /\ \E from \in Positions(board), to \in Positions(board) :
          \E actions \in {ChossGame_playable_move(Human, from, to)} :
              /\ actions # None
              /\ req' = [req EXCEPT !.to_play = <<from, actions>>]
    /\ UNCHANGED <<board, turn, leaped, out>>

start_ai_turn_searching ==
    /\ out = None
    /\ req.status = "Playing"
    /\ Human # turn_color
    /\ req.to_play = None
    /\ turn < StatusPlies
    /\ \E mvs \in {moves(board, turn_color, TRUE)} :
          IF mvs = << >>
          THEN out' = NoCandidate /\ UNCHANGED req
          ELSE /\ \E n \in 1..Len(mvs) : req' = [req EXCEPT !.to_play = mvs[n]]
               /\ UNCHANGED out
    /\ UNCHANGED <<board, turn, leaped>>

play_move_applying ==
    /\ out = None
    /\ req.to_play # None
    /\ ChossGame_play_on(req.to_play[1], req.to_play[2])
    /\ req' = [to_play |-> None, status |-> game_over(board', turn_color, req.status)]
    /\ UNCHANGED out

NextStatus ==
    \/ mouse_button_clicks
    \/ start_ai_turn_searching
    \/ play_move_applying

SpecStatus == InitStatus /\ [][NextStatus]_vars

----------------------------------------------------------------------------
(* Properties of SpecMoves *)

Range(s) == {s[k] : k \in 1..Len(s)}

HasKing(b, color) == \E n \in 1..Len(b.squares) : b.squares[n] = Officer(color, "King")

KingSafeAfter(b, color, cand) == is_checked(play(b, color, cand[1], cand[2]), color) = "false"

Pseudo(which, b, color) ==
    IF which = "moves" THEN moves(b, color, FALSE) ELSE takes(b, color, FALSE)

SafeCall == req # None /\ req[3] = TRUE /\ HasKing(board, req[2])

\* C1: on a board holding a King of `color`, moves(color, true) and
\* takes(color, true) return exactly the pseudo-legal candidates after which
\* is_checked(color) is false: none that leaves the king capturable is
\* returned, none that keeps it safe is dropped, none is returned twice.
C1_SafeMovesExact ==
    SafeCall =>
        LET pseudo == Pseudo(req[1], board, req[2])
            keep == {k \in 1..Len(pseudo) : KingSafeAfter(board, req[2], pseudo[k])}
        IN /\ out # PanickedMoves
           /\ Range(out) = {pseudo[k] : k \in keep}
           /\ Len(out) = Cardinality(keep)

\* a safe call that kept some candidates and dropped others
C1_Witness ==
    /\ SafeCall
    /\ Len(out) > 0
    /\ Len(out) < Len(Pseudo(req[1], board, req[2]))

PlainCall == req # None /\ req[3] = FALSE

PawnCandidates == {k \in 1..Len(out) : get(board, out[k][1]).piece = "Pawn"}

Gos(actions) == {k \in 1..Len(actions) : actions[k].t = "Go"}

FinalGo(actions) == actions[CHOOSE k \in Gos(actions) : \A m \in Gos(actions) : m <= k].p

Promotes(b, cand) == ~in_bound(b, add(FinalGo(cand[2]), get(b, cand[1]).orientation))

Unpromoted(actions) == SelectSeq(actions, LAMBDA a : a.t # "Promotion")

\* C7: a pawn candidate whose final Go reaches the square before the edge comes
\* as exactly two candidates, the same actions followed by Promotion(Queen) and
\* by Promotion(Knight); no other kind is ever offered, no unpromoted variant
\* goes there, and no candidate to another square carries a Promotion.
C7_PromotionPairs ==
    PlainCall =>
        \A k \in PawnCandidates :
            LET cand == out[k]
                actions == cand[2]
                twins == {m \in PawnCandidates :
                             /\ out[m][1] = cand[1]
                             /\ Unpromoted(out[m][2]) = Unpromoted(actions)}
            IN /\ Gos(actions) # {}
               /\ \A n \in 1..Len(actions) :
                     actions[n].t = "Promotion" =>
                        n = Len(actions) /\ actions[n].k \in {"Queen", "Knight"}
               /\ IF Promotes(board, cand)
                  THEN /\ actions[Len(actions)].t = "Promotion"
                       /\ Cardinality(twins) = 2
                       /\ {out[m][2][Len(out[m][2])] : m \in twins}
                             = {Promotion("Queen"), Promotion("Knight")}
                  ELSE /\ actions[Len(actions)].t # "Promotion"
                       /\ twins = {k}

\* a pawn captures onto the last rank and is offered both promotions
C7_Witness ==
    /\ PlainCall
    /\ \E k \in PawnCandidates :
          /\ Promotes(board, out[k])
          /\ get(board, FinalGo(out[k][2])) # Vacant
          /\ out[k][2][Len(out[k][2])] = Promotion("Knight")

----------------------------------------------------------------------------
(* Properties of SpecCheck *)

CheckCall == req # None

KingSquares(b, color) == {q \in Positions(b) : get(b, q) = Officer(color, "King")}

\* some capture-only pseudo-legal move of `attacker` has a Go or a Take on a square of `squares`
Targeted(b, attacker, squares) ==
    \E q \in Positions(b) :
        /\ get(b, q).color = attacker
        /\ \E actions \in Range(Piece_takes(get(b, q), b, q, attacker)) :
              \E a \in Range(actions) : a.t \in {"Go", "Take"} /\ a.p \in squares

\* C4: on a board containing a King of `color`, is_checked(color) is true iff
\* some capture-only pseudo-legal move of the other color (not filtered for
\* that color's own king) has an action whose target is the King's square.
C4_CheckedIffKingTargeted ==
    (CheckCall /\ HasKing(board, req[2])) =>
        out = IF Targeted(board, Color_next(req[2]), KingSquares(board, req[2]))
              THEN "true" ELSE "false"

\* the King is checked by a capture that the attacker's own king safety would forbid
C4_Witness ==
    /\ CheckCall
    /\ out = "true"
    /\ HasKing(board, Color_next(req[2]))
    /\ \A k \in 1..Len(takes(board, Color_next(req[2]), TRUE)) :
          ~targets_square(takes(board, Color_next(req[2]), TRUE)[k][2],
                          king_pos(board, req[2]))

\* C10: is_checked(color) fails fatally on every board without a King of
\* `color` and answers true or false on every board with one.
C10_PanicsIffNoKing ==
    CheckCall =>
        IF HasKing(board, req[2]) THEN out \in {"true", "false"} ELSE out = "panic"

\* the call fails although the other color's King is on the board
C10_Witness ==
    /\ CheckCall
    /\ out = "panic"
    /\ HasKing(board, Color_next(req[2]))

----------------------------------------------------------------------------
(* Properties of SpecPlay: req = <<"play", color, origin, actions>> *)

PlayCall == req # None

InBoundActions(b, actions) ==
    \A a \in Range(actions) : a.t \in {"Go", "Take"} => in_bound(b, a.p)

Generated == <<req[3], req[4]>> \in Range(moves(board, req[2], FALSE))

\* the square of the mover when action n is applied
StandsAt(origin, actions, n) ==
    LET before == {k \in Gos(actions) : k < n}
    IN IF before = {} THEN origin
       ELSE actions[CHOOSE k \in before : \A m \in before : m <= k].p

Acted(origin, actions) ==
    (IF Gos(actions) # {} THEN {origin} ELSE {})
    \cup {actions[n].p : n \in {k \in 1..Len(actions) : actions[k].t \in {"Go", "Take"}}}
    \cup {StandsAt(origin, actions, n) :
            n \in {k \in 1..Len(actions) : actions[k].t = "Promotion"}}

Demoted(sq, color) ==
    IF sq.color = color /\ sq.piece = "Pawn" /\ sq.status = "JustLeaped"
    THEN [sq EXCEPT !.status = "CannotLeap"]
    ELSE sq

\* C8: the board play() returns has the width and height of its input and
\* differs from it only at the origin (when a Go leaves it), the Go and Take
\* squares and the square of a Promotion, and in `color`'s JustLeaped pawns,
\* now CannotLeap; every other square, the other color's pawn statuses
\* included, is identical.  For a generated candidate the origin and the Take
\* squares end empty and the final Go square holds the mover, or the promoted
\* piece of the mover's color.
C8_PlayFrame ==
    (PlayCall /\ out # Panicked /\ InBoundActions(board, req[4])) =>
        /\ out.width = board.width
        /\ out.height = board.height
        /\ Len(out.squares) = Len(board.squares)
        /\ \A q \in Positions(board) \ Acted(req[3], req[4]) :
              get(out, q) = Demoted(get(board, q), req[2])
        /\ Generated =>
              LET mover == get(board, req[3])
                  final == FinalGo(req[4])
                  lastact == req[4][Len(req[4])]
              IN /\ get(out, req[3]) = Vacant
                 /\ \A a \in Range(req[4]) : a.t = "Take" => get(out, a.p) = Vacant
                 /\ IF lastact.t = "Promotion"
                    THEN get(out, final) = Officer(req[2], lastact.k)
                    ELSE /\ get(out, final).color = req[2]
                         /\ get(out, final).piece = mover.piece
                         /\ get(out, final).orientation = mover.orientation

\* an en passant capture was played while the other color owns a JustLeaped pawn
C8_Witness ==
    /\ PlayCall
    /\ Generated
    /\ out # Panicked
    /\ \E a \in Range(req[4]) : a.t = "Take"
    /\ \E q \in Positions(board) :
          get(board, q).color = Color_next(req[2]) /\ get(board, q).status = "JustLeaped"

\* C9 as claimed: play() fails whenever the origin does not hold a piece of
\* `color`, whatever the (non-empty) move.
C9_FailsUnlessOwnPiece ==
    (PlayCall /\ get(board, req[3]).color # req[2] /\ req[4] # << >>) => out = Panicked

\* C9: play() fails when the origin is out of bound, and when the origin is
\* empty and the move holds a Go or a Promotion; it does not fail when the
\* origin holds a piece of either color, nor on an empty origin when the move
\* holds only Take actions (all action squares in bound).
C9_FailsWithoutMover ==
    PlayCall =>
        LET sq == get(board, req[3])
            moving == \E a \in Range(req[4]) : a.t \in {"Go", "Promotion"}
        IN /\ sq = OutOfBoard => out = Panicked
           /\ (sq = Vacant /\ moving) => out = Panicked
           /\ (sq \notin {OutOfBoard, Vacant} /\ InBoundActions(board, req[4])) => out # Panicked
           /\ (sq = Vacant /\ ~moving /\ InBoundActions(board, req[4])) => out # Panicked

\* a piece of the other color was moved by play(color, ...)
C9_Witness ==
    /\ PlayCall
    /\ get(board, req[3]).color = Color_next(req[2])
    /\ Gos(req[4]) # {}
    /\ out # Panicked
    /\ get(out, FinalGo(req[4])).color = Color_next(req[2])

----------------------------------------------------------------------------
(* Properties of SpecSearch: req = <<"negamax", color, depth>> *)

SearchCall == req # None

LegalMoves == moves(board, req[2], TRUE)

\* C2: the move negamax returns is one of board.moves(color, true), at every depth.
C2_ReturnsLegalMove ==
    (SearchCall /\ out # NoMove) => out \in Range(LegalMoves)

\* negamax returned a move where some pseudo-legal move is not legal, at depth 0
C2_Witness ==
    /\ SearchCall
    /\ req[3] = 0
    /\ out # NoMove
    /\ Len(LegalMoves) < Len(moves(board, req[2], FALSE))

\* C3 as claimed: negamax returns no move iff `color` has no legal move.
C3_NoMoveIffNoLegalMove ==
    SearchCall => (out = NoMove <=> LegalMoves = << >>)

\* what negamax handed back, as a set of candidates
Returned == IF out = NoMove THEN {} ELSE {out}

\* C14 as claimed: negamax returns every legal root move of `color`.
C14_ReturnsEveryLegalMove ==
    SearchCall => Returned = Range(LegalMoves)

\* the legal root moves in the order the root loop visits them
SortedLegal == sort_by_value(board, LegalMoves, << >>)

RootScores == root_scores(board, req[2], req[3], SortedLegal, NEG_INFINITY)

After(candidate) == play(board, req[2], candidate[1], candidate[2])

NoReply(candidate) == moves(After(candidate), Color_next(req[2]), TRUE) = << >>

Mates(candidate) ==
    NoReply(candidate) /\ is_checked(After(candidate), Color_next(req[2])) = "true"

\* C15 as claimed: a root move that leaves the opponent without a legal move
\* scores +infinity when the opponent is left in check and 0 otherwise, so no
\* non-mating move scores above a mating one.
C15_MateOverridesScore ==
    SearchCall =>
        \A mvs \in {SortedLegal} : \A scores \in {RootScores} :
            /\ \A k \in 1..Len(mvs) :
                  NoReply(mvs[k]) =>
                      scores[k] = IF Mates(mvs[k]) THEN <<INFINITY, 0>> ELSE <<0, 0>>
            /\ \A k, j \in 1..Len(mvs) :
                  (Mates(mvs[k]) /\ ~Mates(mvs[j])) => ~f32_gt(scores[j], scores[k])

----------------------------------------------------------------------------
(* En passant *)

\* the pawns of the other color placed to capture en passant a pawn of `color`
\* that passed over `over` and stands at `at`: a forward diagonal of theirs is
\* the empty square `over`, and `at` is the square behind that diagonal
Capturers(b, color, over, at) ==
    {p \in Positions(b) :
        /\ get(b, p) # Vacant
        /\ get(b, p).piece = "Pawn"
        /\ get(b, p).color # color
        /\ get(b, over) = Vacant
        /\ add(over, mul(get(b, p).orientation, -1)) = at
        /\ \E n \in 1..Len(neighbors(get(b, p).orientation)) :
              add(neighbors(get(b, p).orientation)[n], p) = over}

LeapCall == PlayCall /\ out # Panicked /\ IsLeap(board, req[3], req[4])

PassedOver == add(req[3], get(board, req[3]).orientation)

\* C5: on the board play() returns after a pawn advanced two squares, the
\* leaped pawn is JustLeaped and every enemy pawn with the passed-over empty
\* square as a forward diagonal has <<Go(diagonal), Take(leaped pawn)>> in
\* both its takes() and its moves().
C5_EnPassantOffered ==
    LeapCall =>
        \A p \in Capturers(out, get(board, req[3]).color, PassedOver, req[4][1].p) :
            /\ get(out, req[4][1].p).status = "JustLeaped"
            /\ <<Go(PassedOver), Take(req[4][1].p)>>
                   \in Range(Piece_takes(get(out, p), out, p, get(out, p).color))
            /\ <<Go(PassedOver), Take(req[4][1].p)>>
                   \in Range(Piece_moves(get(out, p), out, p, get(out, p).color))

\* a pawn leaped next to an enemy pawn
C5_Witness ==
    /\ LeapCall
    /\ Generated
    /\ Capturers(out, get(board, req[3]).color, PassedOver, req[4][1].p) # {}

Offered(b) ==
    UNION {Range(moves(b, color, safe)) \cup Range(takes(b, color, safe)) :
             color \in Colors, safe \in BOOLEAN}

\* C6: a pawn leaped at ply n is JustLeaped during ply n+1; from ply n+3 on,
\* if it is still on the board, it is CannotLeap and no generator, for either
\* color, filtered or not, offers a move that Takes it.
C6_EnPassantExpires ==
    \A e \in leaped :
        /\ turn = e.ply + 1 => get(board, e.at).status = "JustLeaped"
        /\ turn >= e.ply + 3 =>
              /\ get(board, e.at) = Pawn(e.color, Orientation(e.color), "CannotLeap")
              /\ \A cand \in Offered(board) : Take(e.at) \notin Range(cand[2])

\* three plies after a leap, the leaped pawn still stands beside an enemy pawn
C6_Witness ==
    \E e \in leaped :
        /\ turn >= e.ply + 3
        /\ Capturers(board, e.color, e.over, e.at) # {}

----------------------------------------------------------------------------
(* Pawn statuses along a game *)

StatusRank(status) ==
    CASE status = "CanLeap" -> 0 [] status = "JustLeaped" -> 1 [] status = "CannotLeap" -> 2

IsPawn(b, p) == get(b, p) \notin {OutOfBoard, Vacant} /\ get(b, p).piece = "Pawn"

\* the pawn at `from` before a ply is the pawn at `to` after it: it stayed, or
\* `from` was vacated and `to` newly holds a pawn of its color
SamePawn(before, from, after, to) ==
    /\ IsPawn(before, from) /\ IsPawn(after, to)
    /\ get(before, from).color = get(after, to).color
    /\ \/ from = to
       \/ /\ get(after, from) = Vacant
          /\ get(before, to) = Vacant \/ get(before, to).color # get(after, to).color

\* C11: along a game played with generated moves, the status of a pawn never
\* decreases in the order CanLeap < JustLeaped < CannotLeap.
C11_StatusMonotonic ==
    [][\A from, to \in Positions(board) :
          SamePawn(board, from, board', to) =>
              StatusRank(get(board', to).status) >= StatusRank(get(board, from).status)]_vars

\* a pawn that leaped during the game has become CannotLeap
C11_Witness ==
    \E e \in leaped : IsPawn(board, e.at) /\ get(board, e.at).status = "CannotLeap"

----------------------------------------------------------------------------
(* The standard board *)

MovesFrom(mvs, p) == {mvs[n][2] : n \in {k \in 1..Len(mvs) : mvs[k][1] = p}}

\* the legal moves of `color` are a single and a double step for each of its
\* eight pawns and two moves for each of its two knights, and nothing else
TwentyMoves(b, color) ==
    LET mvs == moves(b, color, TRUE)
        pawns == {p \in Positions(b) : IsPawn(b, p) /\ get(b, p).color = color}
        knights == {p \in Positions(b) : get(b, p) = Officer(color, "Knight")}
    IN /\ Len(mvs) = 20
       /\ Cardinality(Range(mvs)) = 20
       /\ Cardinality(pawns) = 8 /\ Cardinality(knights) = 2
       /\ \A p \in pawns :
             MovesFrom(mvs, p) = {<<Go(add(p, Orientation(color)))>>,
                                  <<Go(add(p, mul(Orientation(color), 2)))>>}
       /\ \A p \in knights :
             /\ Cardinality(MovesFrom(mvs, p)) = 2
             /\ \A m \in MovesFrom(mvs, p) :
                   Len(m) = 1 /\ m[1].t = "Go" /\ m[1].p \in Range(knight_targets(p))

\* C12: on the standard board each color has exactly 20 legal moves, 16 pawn
\* moves (a single and a double step per pawn) and 4 knight moves.
C12_TwentyOpeningMoves ==
    board = standard_board => \A color \in Colors : TwentyMoves(board, color)

\* the game is at the standard board, 8 wide and 8 high, White to move
C12_Witness ==
    /\ board = standard_board /\ turn = 0
    /\ board.width = 8 /\ board.height = 8
    /\ Len(moves(board, turn_color, TRUE)) = 20

----------------------------------------------------------------------------
(* Properties of SpecPiece *)

MovesCall == req # None /\ req[1] = "Piece::moves"

TakesCall == req # None /\ req[1] = "Piece::takes"

Subject == get(board, req[2])

Empty(q) == in_bound(board, q) /\ board.squares[q[1] + q[2] * board.width + 1] = Vacant

Occupied(q) == in_bound(board, q) /\ board.squares[q[1] + q[2] * board.width + 1] # Vacant

Enemy(q) == Occupied(q) /\ get(board, q).color # Subject.color

Friend(q) == Occupied(q) /\ get(board, q).color = Subject.color

Offers == {Unpromoted(out[k]) : k \in 1..Len(out)}

Forward(n) == <<req[2][1], req[2][2] + n * Subject.orientation[2]>>

ForwardDiagonals == {<<req[2][1] - 1, Forward(1)[2]>>, <<req[2][1] + 1, Forward(1)[2]>>}

Behind(q) == <<q[1], q[2] - Subject.orientation[2]>>

PawnSteps ==
    (IF Empty(Forward(1)) THEN {<<Go(Forward(1))>>} ELSE {})
    \cup (IF Subject.status = "CanLeap" /\ Empty(Forward(1)) /\ Empty(Forward(2))
          THEN {<<Go(Forward(2))>>} ELSE {})

PawnCaptures ==
    {<<Go(d)>> : d \in {q \in ForwardDiagonals : Enemy(q)}}
    \cup {<<Go(d), Take(Behind(d))>> :
             d \in {q \in ForwardDiagonals :
                       /\ Empty(q)
                       /\ Enemy(Behind(q))
                       /\ get(board, Behind(q)).piece = "Pawn"
                       /\ get(board, Behind(q)).status = "JustLeaped"}}

\* C16: up to the promotion suffix, a pawn's moves are exactly the step onto the
\* empty square ahead, the leap when it is CanLeap and both squares ahead are
\* empty, the step onto each forward diagonal that holds an enemy piece, and
\* the en passant captures; its takes are exactly the last two kinds.
C16_PawnMovesExact ==
    ((MovesCall \/ TakesCall) /\ Subject.piece = "Pawn") =>
        Offers = (IF MovesCall THEN PawnSteps ELSE {}) \cup PawnCaptures

\* a pawn that may leap, with the square ahead empty, the leap square occupied
\* and a piece of its own color on a forward diagonal
C16_Witness ==
    /\ MovesCall
    /\ Subject.piece = "Pawn"
    /\ Subject.status = "CanLeap"
    /\ Empty(Forward(1))
    /\ Occupied(Forward(2))
    /\ \E d \in ForwardDiagonals : Friend(d)

Orthogonals == {<<0, 1>>, <<0, -1>>, <<1, 0>>, <<-1, 0>>}

Diagonals == {<<1, 1>>, <<1, -1>>, <<-1, 1>>, <<-1, -1>>}

Directions(kind) ==
    CASE kind = "Bishop" -> Diagonals
      [] kind = "Rook" -> Orthogonals
      [] kind = "Queen" -> Orthogonals \cup Diagonals

Reach == 1..Max(PieceW, PieceH)

Along(dir, n) == <<req[2][1] + n * dir[1], req[2][2] + n * dir[2]>>

Clear(dir, n) == \A m \in 1..n : Empty(Along(dir, m))

\* the first occupied square of the ray, when it holds an enemy piece
RayTakes(dir) == {Along(dir, n) : n \in {m \in Reach : Clear(dir, m - 1) /\ Enemy(Along(dir, m))}}

RayMoves(dir) == {Along(dir, n) : n \in {m \in Reach : Clear(dir, m)}} \cup RayTakes(dir)

NoRepeat == \A k, m \in 1..Len(out) : out[k] = out[m] => k = m

\* C17: the moves of a Bishop, a Rook and a Queen are, along each of their
\* directions, the run of empty squares next to the piece and then the first
\* occupied square when it holds an enemy piece; the takes are those enemy
\* blocking squares only; each is a single Go and none is offered twice.
C17_RayMovesExact ==
    ((MovesCall \/ TakesCall) /\ Subject.piece \in {"Bishop", "Rook", "Queen"}) =>
        /\ NoRepeat
        /\ Range(out) =
              {<<Go(q)>> : q \in UNION {IF MovesCall THEN RayMoves(d) ELSE RayTakes(d) :
                                          d \in Directions(Subject.piece)}}

\* a ray with an empty square, then an enemy piece, then another piece behind it
C17_Witness ==
    /\ MovesCall
    /\ Subject.piece \in {"Bishop", "Rook", "Queen"}
    /\ \E d \in Directions(Subject.piece) :
          Empty(Along(d, 1)) /\ Enemy(Along(d, 2)) /\ Occupied(Along(d, 3))

Offsets(kind) ==
    CASE kind = "Knight" ->
             {d \in {-2, -1, 1, 2} \X {-2, -1, 1, 2} : d[1] # d[2] /\ d[1] # -d[2]}
      [] kind = "King" -> ({-1, 0, 1} \X {-1, 0, 1}) \ {<<0, 0>>}

Targets == {Along(d, 1) : d \in Offsets(Subject.piece)}

\* C18: a Knight's and a King's moves are the single Go onto each of their
\* eight target squares that is in bounds and empty or enemy-occupied, their
\* takes the single Go onto each that is enemy-occupied; nothing else (no
\* castling, no second action) is offered and nothing is offered twice.
C18_StepMovesExact ==
    ((MovesCall \/ TakesCall) /\ Subject.piece \in {"Knight", "King"}) =>
        /\ NoRepeat
        /\ Range(out) =
              {<<Go(q)>> : q \in {t \in Targets : Enemy(t) \/ (MovesCall /\ Empty(t))}}

\* a king or knight with a target held by its own color, one held by the
\* enemy and one out of bounds
C18_Witness ==
    /\ MovesCall
    /\ Subject.piece \in {"Knight", "King"}
    /\ \E t \in Targets : Friend(t)
    /\ \E t \in Targets : Enemy(t)
    /\ \E t \in Targets : ~in_bound(board, t)

Opponents(b, color) ==
    Cardinality({n \in 1..Len(b.squares) :
                    b.squares[n] # Vacant /\ b.squares[n].color # color})

\* playing `actions` with the subject removes a piece of the other color
Captures(actions) ==
    Opponents(play(board, Subject.color, req[2], actions), Subject.color)
        < Opponents(board, Subject.color)

SubjectMoves == Piece_moves(Subject, board, req[2], Subject.color)

SubjectTakes == Piece_takes(Subject, board, req[2], Subject.color)

\* C19: every take of a piece is one of its moves and removes a piece of the
\* other color when played, and every move of a piece that removes a piece of
\* the other color when played is one of its takes.
C19_TakesAreCapturingMoves ==
    /\ TakesCall =>
          \A k \in 1..Len(out) : out[k] \in Range(SubjectMoves) /\ Captures(out[k])
    /\ MovesCall =>
          \A k \in 1..Len(out) : Captures(out[k]) => out[k] \in Range(SubjectTakes)

\* the moves of a pawn hold an en passant capture and a move that captures nothing
C19_Witness ==
    /\ MovesCall
    /\ \E k \in 1..Len(out) :
          Captures(out[k]) /\ \E n \in 1..Len(out[k]) : out[k][n].t = "Take"
    /\ \E k \in 1..Len(out) : ~Captures(out[k])

----------------------------------------------------------------------------
(* Properties of SpecTurn *)

TurnCall == req # None /\ req[1] = "begin_turn"

JustLeapedOf(sq, color) ==
    sq # Vacant /\ sq.color = color /\ sq.piece = "Pawn" /\ sq.status = "JustLeaped"

\* C20: begin_turn(color) sets the JustLeaped pawns of `color` to CannotLeap,
\* keeping their color and orientation, and leaves every other square as it is:
\* the other color's pieces (its JustLeaped pawns too), the officers, the
\* CanLeap and CannotLeap pawns and the empty squares.
C20_BeginTurnFrame ==
    TurnCall =>
        /\ out.width = board.width /\ out.height = board.height
        /\ Len(out.squares) = Len(board.squares)
        /\ \A n \in 1..Len(board.squares) :
              IF JustLeapedOf(board.squares[n], req[2])
              THEN out.squares[n] =
                       Pawn(req[2], board.squares[n].orientation, "CannotLeap")
              ELSE out.squares[n] = board.squares[n]

\* begin_turn ran on a board where each color has a pawn that just leaped and
\* the color has a pawn that may still leap
C20_Witness ==
    /\ TurnCall
    /\ \A color \in Colors :
          \E n \in 1..Len(board.squares) : JustLeapedOf(board.squares[n], color)
    /\ \E n \in 1..Len(board.squares) :
          /\ board.squares[n] # Vacant
          /\ board.squares[n].color = req[2]
          /\ board.squares[n].status = "CanLeap"
    /\ out # board

----------------------------------------------------------------------------
(* Piece::moved, seen through play() in SpecPlay *)

\* a play of a piece, with a Go and without Promotion, that returned a board
MovedCall ==
    /\ PlayCall
    /\ out # Panicked
    /\ in_bound(board, req[3])
    /\ get(board, req[3]) # Vacant
    /\ Gos(req[4]) # {}
    /\ \A a \in Range(req[4]) : a.t # "Promotion"

LastGo == CHOOSE k \in Gos(req[4]) : \A m \in Gos(req[4]) : m <= k

Mover == get(board, req[3])

LeapFrom(start, orientation) == <<start[1] + 2 * orientation[1], start[2] + 2 * orientation[2]>>

\* C21: after a Go from start to target the square at target holds the mover:
\* a pawn becomes JustLeaped when target is start + 2 * orientation and
\* CannotLeap otherwise, whatever its status was, with its color and
\* orientation kept; any other piece is unchanged.
C21_MovedStatus ==
    MovedCall =>
        get(out, FinalGo(req[4])) =
            IF Mover.piece = "Pawn"
            THEN Pawn(Mover.color, Mover.orientation,
                      IF FinalGo(req[4]) = LeapFrom(StandsAt(req[3], req[4], LastGo),
                                                    Mover.orientation)
                      THEN "JustLeaped" ELSE "CannotLeap")
            ELSE Mover

\* a pawn that could still leap captured on a diagonal instead
C21_Witness ==
    /\ MovedCall
    /\ Generated
    /\ Mover.piece = "Pawn"
    /\ Mover.status = "CanLeap"
    /\ FinalGo(req[4])[1] # req[3][1]
    /\ get(out, FinalGo(req[4])).status = "CannotLeap"

----------------------------------------------------------------------------
(* The grid of the boards a game reaches *)

\* the coordinates around and inside a board, out-of-bound ones included
Coordinates(b) == (-1..b.width) \X (-1..b.height)

\* C22: a board reached by play() calls has width * height squares, and i and
\* pos are inverse of each other between the in-bound positions and the
\* indices below width * height.
C22_GridBijection ==
    /\ Len(board.squares) = board.width * board.height
    /\ \A q \in Coordinates(board) :
          in_bound(board, q) =>
              /\ 0 <= i(board, q) /\ i(board, q) < board.width * board.height
              /\ pos(board, i(board, q)) = q
    /\ \A k \in 0..(board.width * board.height - 1) :
          in_bound(board, pos(board, k)) /\ i(board, pos(board, k)) = k

\* the board after MaxTurn plies, one of them a leap
C22_Witness == turn = MaxTurn /\ leaped # {} /\ board \notin StartBoards

----------------------------------------------------------------------------
(* Properties of SpecGrid *)

Inside(b, x, y) == 0 <= x /\ x < b.width /\ 0 <= y /\ y < b.height

\* C23: in_bound(pos) is true iff 0 <= x < width and 0 <= y < height; get(pos)
\* is "no value" for every out-of-bound position, negative coordinates
\* included, and the square at index x + y * width for every other.
C23_QueriesTotal ==
    /\ (req # None /\ req[1] = "in_bound") =>
          (out <=> Inside(board, req[2][1], req[2][2]))
    /\ (req # None /\ req[1] = "get") =>
          out = IF Inside(board, req[2][1], req[2][2])
                THEN board.squares[req[2][1] + req[2][2] * board.width + 1]
                ELSE OutOfBoard

\* get was asked about a position left of the board whose index is inside the vector
C23_Witness ==
    /\ req # None
    /\ req[1] = "get"
    /\ req[2][1] < 0
    /\ req[2][1] + req[2][2] * board.width >= 0
    /\ req[2][1] + req[2][2] * board.width < Len(board.squares)
    /\ out = OutOfBoard

----------------------------------------------------------------------------
(* Properties of SpecFactory *)

FactoryCall == req # None /\ req[1] \in {"from_backrank", "standard_board", "halved_board"}

PublicFactoryCall == req # None /\ req[1] \in {"standard_board", "halved_board"}

\* the back-rank list the board was built from
BackRank ==
    CASE req[1] = "from_backrank" -> req[2]
      [] req[1] = "standard_board" ->
             <<"Rook", "Knight", "Bishop", "Queen", "King", "Bishop", "Knight", "Rook">>
      [] req[1] = "halved_board" -> <<"Rook", "Knight", "Bishop", "King", "Queen">>

At(x, y) == out.squares[x + y * out.width + 1]

Kings(color) ==
    {n \in 1..Len(out.squares) : out.squares[n] = Officer(color, "King")}

\* C24: a factory board is as wide as its back-rank list and 8 high; rank 0
\* holds the Black back rank and rank 7 the White one, file by file the same
\* kinds; ranks 1 and 6 hold the Black and White pawns, oriented (0,1) and
\* (0,-1), all CanLeap; ranks 2..5 are empty; standard_board and halved_board
\* hold exactly one King of each color.
C24_FactoryLayout ==
    /\ FactoryCall =>
          /\ out.width = Len(BackRank) /\ out.height = 8
          /\ Len(out.squares) = 8 * Len(BackRank)
          /\ \A x \in 0..(Len(BackRank) - 1) :
                /\ At(x, 0) = Officer("Black", BackRank[x + 1])
                /\ At(x, 7) = Officer("White", BackRank[x + 1])
                /\ At(x, 1) = Pawn("Black", <<0, 1>>, "CanLeap")
                /\ At(x, 6) = Pawn("White", <<0, -1>>, "CanLeap")
                /\ \A y \in 2..5 : At(x, y) = Vacant
    /\ PublicFactoryCall =>
          \A color \in Colors : Cardinality(Kings(color)) = 1

\* halved_board, whose back rank reads differently from either end
C24_Witness ==
    /\ req = <<"halved_board">>
    /\ At(3, 0) = Officer("Black", "King")
    /\ At(3, 7) = Officer("White", "King")
    /\ At(4, 7) = Officer("White", "Queen")

----------------------------------------------------------------------------
(* Properties of SpecPos *)

NeighborsCall == req # None /\ req[1] = "neighbors"

Gap(m, n) == IF m >= n THEN m - n ELSE n - m

\* two of the eight unit directions are adjacent when they are 45 degrees apart
Adjacent(d, e) == Gap(d[1], e[1]) + Gap(d[2], e[2]) = 1

----------------------------------------------------------------------------
(* Properties of SpecPgn *)

PgnCall == req # None /\ req[1] = "move2pgn"

FileLetter(x) ==
    CASE x = 0 -> "a" [] x = 1 -> "b" [] x = 2 -> "c" [] x = 3 -> "d"
      [] x = 4 -> "e" [] x = 5 -> "f" [] x = 6 -> "g" [] x = 7 -> "h"

RankDigit(y) ==
    CASE y = 0 -> "0" [] y = 1 -> "1" [] y = 2 -> "2" [] y = 3 -> "3"
      [] y = 4 -> "4" [] y = 5 -> "5" [] y = 6 -> "6" [] y = 7 -> "7"

Coordinate(q) == FileLetter(q[1]) \o RankDigit(q[2])

PieceLetter(kind) ==
    CASE kind = "Pawn" -> "p" [] kind = "Knight" -> "N" [] kind = "Bishop" -> "B"
      [] kind = "Rook" -> "R" [] kind = "Queen" -> "Q" [] kind = "King" -> "K"

\* the text of one action of a move from `origin`
ActionText(origin, a) ==
    CASE a.t = "Go" -> Coordinate(origin) \o Coordinate(a.p)
      [] a.t = "Promotion" -> "=" \o PieceLetter(a.k)
      [] a.t = "Take" -> ""

\* the texts of up to three actions, in order
MoveText(origin, actions) ==
    (IF Len(actions) >= 1 THEN ActionText(origin, actions[1]) ELSE "")
    \o (IF Len(actions) >= 2 THEN ActionText(origin, actions[2]) ELSE "")
    \o (IF Len(actions) >= 3 THEN ActionText(origin, actions[3]) ELSE "")

\* C26: move2pgn(origin, move) is the in-order concatenation of the origin and
\* destination coordinates (file letter, then 0-based rank) for each Go, "="
\* and the piece letter for each Promotion, and nothing for a Take; so a move
\* and the same move without its Takes read the same.
C26_MoveText ==
    PgnCall =>
        /\ Len(req[3]) <= 3
        /\ out = MoveText(req[2], req[3])
        /\ out = move2pgn(req[2], SelectSeq(req[3], LAMBDA a : a.t # "Take"))

\* an en passant capture with promotion was written
C26_Witness ==
    /\ PgnCall
    /\ Len(req[3]) = 3
    /\ req[3][2].t = "Take"
    /\ req[3][3].t = "Promotion"
    /\ Len(out) = 6

----------------------------------------------------------------------------
(* Properties of SpecSelfPlay *)

SelfPlayCall == req # None /\ req[1] = "auto_play" /\ req[4] = "loop"

Inverted == invert_color(board)

\* C27: at every turn of a self-play negamax chooses the same origin and
\* actions on the board and on its color-inverted copy with the other color to
\* move, and playing that move on either gives boards that are again inverted
\* copies of each other; the two self-plays therefore write the same texts.
C27_ColorSymmetric ==
    SelfPlayCall =>
        \A move_opt \in {negamax(board, req[2], req[3])} :
            /\ move_opt = negamax(Inverted, Color_next(req[2]), req[3])
            /\ move_opt # NoMove =>
                  invert_color(play(board, req[2], move_opt[1], move_opt[2]))
                      = play(Inverted, Color_next(req[2]), move_opt[1], move_opt[2])

\* the fourth turn of a self-play at depth 1 on a board of unequal material
C27_Witness ==
    /\ SelfPlayCall
    /\ req[3] = SelfPlayDepth
    /\ turn = 3
    /\ mat_score(board) # 0
    /\ negamax(board, req[2], req[3]) # NoMove

----------------------------------------------------------------------------
(* The search without pruning, to compare negamax with *)

RECURSIVE exhaustive(_, _, _)
RECURSIVE exhaustive_loop(_, _, _, _, _)

\* the best of the candidates' values, every candidate explored
exhaustive_loop(b, depth, color, mvs, best_score) ==
    IF mvs = << >>
    THEN (IF depth <= 0
          THEN Max(best_score, mat_score(b) * (IF color = "White" THEN 1 ELSE -1))
          ELSE best_score)
    ELSE CHOOSE r \in {exhaustive_loop(b, depth, color, Tail(mvs), best) :
                          best \in {Max(best_score,
                                        -exhaustive(play(b, color, Head(mvs)[1], Head(mvs)[2]),
                                                    depth - 1, Color_next(color)))}} : TRUE

\* the value of a node: takes only at depth <= 0, floored at the material score
exhaustive(node, depth, color) ==
    Bind(node, LAMBDA b :
    Bind(IF depth <= 0 THEN takes(b, color, FALSE) ELSE moves(b, color, FALSE),
         LAMBDA mvs : exhaustive_loop(b, depth, color, mvs, NEG_INFINITY)))

\* the root's scores when every subtree is searched without cutoff
RECURSIVE exhaustive_scores(_, _, _, _)
exhaustive_scores(b, color, depth, mvs) ==
    IF mvs = << >> THEN << >>
    ELSE Bind(play(b, color, Head(mvs)[1], Head(mvs)[2]), LAMBDA curr_board :
         Bind(root_score(-exhaustive(curr_board, depth - 1, Color_next(color)),
                         Len(moves(curr_board, color, FALSE)),
                         Len(moves(curr_board, Color_next(color), TRUE))), LAMBDA score :
              <<score>> \o exhaustive_scores(b, color, depth, Tail(mvs))))

ExhaustiveChoice ==
    best_of(SortedLegal, exhaustive_scores(board, req[2], req[3], SortedLegal),
            <<NEG_INFINITY, 0>>, NoMove)

\* C28 as claimed: the move negamax returns is the move the same root
\* procedure returns when every subtree is searched without cutoff.
C28_PruningKeepsDecision ==
    SearchCall => out = ExhaustiveChoice

----------------------------------------------------------------------------
(* Properties of SpecQuiesce *)

QuiesceCall == req # None /\ req[1] = "_negamax"

\* the static material evaluation from the mover's perspective
StandPat == mat_score(board) * (IF req[5] = "White" THEN 1 ELSE -1)

\* C29 as claimed: whatever the window, a search entered with depth <= 0
\* returns at least the static evaluation of the board for the mover.
C29_StandPatFloor == QuiesceCall => out >= StandPat

\* C29 amended: the value returned out of depth is at least the static
\* evaluation for the mover unless the loop was cut off, and then it is at
\* least beta.
C29_StandPatFloorUnlessCut == QuiesceCall => out >= Min(StandPat, req[4])

\* a capture is available and scores worse than declining it inside the window
C29_Witness ==
    /\ QuiesceCall
    /\ takes(board, req[5], FALSE) # << >>
    /\ req[3] < StandPat
    /\ StandPat < req[4]
    /\ out = StandPat

\* C30 as claimed: a search entered at the deepest out-of-depth level
\* explores no move and returns the static evaluation of the board.
C30_QuiescenceCutoff == (QuiesceCall /\ req[2] = -MaxQuiesce) => out = StandPat

----------------------------------------------------------------------------
(* Properties of FairLine *)

PiecesOf(b, color) == Cardinality({n \in DOMAIN b.squares : b.squares[n].color = color})

PieceCount(b) == PiecesOf(b, "White") + PiecesOf(b, "Black")

\* C31: below depth 0 every explored move removes exactly one piece of the
\* opponent and none of the mover, a line is never longer than the number of
\* pieces it started with, and every line ends where no capture remains.
C31_QuiescenceTerminates ==
    /\ [][turn' = turn + 1 =>
            /\ PiecesOf(board', Color_next(line_color)) = PiecesOf(board, Color_next(line_color)) - 1
            /\ PiecesOf(board', line_color) = PiecesOf(board, line_color)]_vars
    /\ [](turn + PieceCount(board) = PieceCount(req[3]))
    /\ <>(out # None)

\* a line of three captures has returned
C31_Witness == turn = 3 /\ out # None

----------------------------------------------------------------------------
(* Properties of SpecMatch *)

KingsOf(b, color) ==
    {n \in DOMAIN b.squares : b.squares[n].color = color /\ b.squares[n].piece = "King"}

\* C32: every board reached by alternating king-safe moves from a factory
\* board holds exactly one King of each color, is_checked succeeds for both
\* colors, and the side that has just moved is not in check.
C32_KingsSurvive ==
    /\ \A color \in Colors :
          /\ Cardinality(KingsOf(board, color)) = 1
          /\ is_checked(board, color) \in {"true", "false"}
    /\ is_checked(board, Color_next(turn_color)) = "false"

\* the side to move is in check and has a ply left to answer it
C32_Witness ==
    /\ turn < MatchPlies
    /\ is_checked(board, turn_color) = "true"
    /\ moves(board, turn_color, TRUE) # << >>

JustLeapedPawns(color) == {n \in DOMAIN board.squares : JustLeapedOf(board.squares[n], color)}

\* the color that played the last ply
LastMover == Color_next(turn_color)

\* the pawn on square n leaped there on the given ply
LeapedOn(n, color, ply) ==
    \E e \in leaped : e.at = pos(board, n - 1) /\ e.color = color /\ e.ply = ply

\* C33: a board reached by alternating generated moves from a factory board
\* has at most one JustLeaped pawn per color; a JustLeaped pawn of the color
\* that has just played is the piece it has just moved two squares, and a
\* JustLeaped pawn of the other color leaped on the ply before that.
C33_OneJustLeaped ==
    /\ \A color \in Colors : Cardinality(JustLeapedPawns(color)) <= 1
    /\ \A n \in JustLeapedPawns(LastMover) : turn > 0 /\ LeapedOn(n, LastMover, turn - 1)
    /\ \A n \in JustLeapedPawns(turn_color) : turn > 1 /\ LeapedOn(n, turn_color, turn - 2)

\* both colors own a JustLeaped pawn: leaps on two consecutive plies
C33_Witness == \A color \in Colors : JustLeapedPawns(color) # {}

----------------------------------------------------------------------------
(* Pawns at the edge, in games of Spec *)

PawnsOf(b, color) ==
    {n \in DOMAIN b.squares : b.squares[n].color = color /\ b.squares[n].piece = "Pawn"}

\* one more step along its orientation takes the pawn on square n out of the board
OnLastRank(b, n) == get(b, add(pos(b, n - 1), b.squares[n].orientation)) = OutOfBoard

\* C34: in play of generated moves no pawn ever stands on its last rank, and
\* the number of pawns of a color never increases.
C34_PawnsPromote ==
    /\ [](\A color \in Colors : \A n \in PawnsOf(board, color) : ~OnLastRank(board, n))
    /\ [][\A color \in Colors :
              Cardinality(PawnsOf(board', color)) <= Cardinality(PawnsOf(board, color))]_vars

\* a pawn has reached its last rank and stands there as a Queen or a Knight
C34_Witness ==
    \E n \in DOMAIN board.squares :
        /\ board.squares[n].piece \in {"Queen", "Knight"}
        /\ pos(board, n - 1)[2] = (IF board.squares[n].color = "White" THEN 0 ELSE board.height - 1)

----------------------------------------------------------------------------
(* Positions carried by the moves of SpecPiece *)

PieceCall == MovesCall \/ TakesCall

\* the board after Board::play of the k-th move returned
Played(k) == play(board, Subject.color, req[2], out[k])

\* C35: every Go and Take of a move returned by Piece::moves or Piece::takes
\* names a square of the board, no Go lands on a piece of the mover's color
\* and no Take names one, so that playing the move succeeds and leaves the
\* mover with as many pieces as before.
C35_MovesStayOnBoard ==
    PieceCall =>
        \A k \in 1..Len(out) :
            /\ \A n \in 1..Len(out[k]) :
                  out[k][n].t \in {"Go", "Take"} =>
                      /\ in_bound(board, out[k][n].p)
                      /\ ~Friend(out[k][n].p)
            /\ Played(k) # Panicked
            /\ PiecesOf(Played(k), Subject.color) = PiecesOf(board, Subject.color)

\* a King in the corner next to a piece of its own color has moves
C35_Witness ==
    /\ MovesCall
    /\ Subject.piece = "King"
    /\ req[2] = <<0, 0>>
    /\ \E k \in 1..Len(LOS) : Friend(add(req[2], LOS[k]))
    /\ out # << >>

----------------------------------------------------------------------------
(* Properties of FairSelfPlay *)

SelfPlayReturned == req # None /\ req[1] = "auto_play" /\ req[4] = "return"

\* the number of tokens of a text whose tokens are separated by single spaces
Tokens(text) ==
    IF Len(text) = 0 THEN 0
    ELSE 1 + Cardinality({k \in 1..Len(text) : SubSeq(text, k, k) = " "})

\* C36: auto_play returns; while it loops it has played fewer than 100 plies
\* and holds one text per ply, the mover changes with every ply, and when
\* it returns either negamax has no move for the mover or 100 plies have been
\* played, and the text returned holds one token per ply played.
C36_AutoPlayTerminates ==
    /\ [](SelfPlayCall => turn < 100 /\ Len(out) = turn)
    /\ [](SelfPlayReturned =>
            /\ turn <= 100
            /\ Tokens(out) = turn
            /\ turn < 100 => negamax(board, req[2], req[3]) = NoMove)
    /\ [][SelfPlayCall /\ turn' = turn + 1 /\ turn' < 100 => req'[2] = Color_next(req[2])]_vars
    /\ [](SelfPlayCall => <>SelfPlayReturned)

\* a self-play stopped by the limit of 100 plies
C36_Witness == SelfPlayReturned /\ turn = 100

----------------------------------------------------------------------------
(* Properties of SpecHuman *)

HumanCall == req # None /\ req[1] = "playable_move"

\* the king-safe moves of the piece on the origin, in generation order
SafeOfOrigin ==
    SelectSeq(Piece_moves(get(board, req[3]), board, req[3], turn_color),
              LAMBDA actions : checked_after(board, turn_color, req[3], actions) = "false")

Goes(actions, to) == \E n \in 1..Len(actions) : actions[n].t = "Go" /\ actions[n].p = to

\* C37: playable_move returns a move only on the player's turn and for an
\* origin holding a piece of the player; the move is the first king-safe
\* move of that piece that holds Go(to), and a Promotion in it is a Queen.
C37_PlayableMove ==
    (HumanCall /\ out # None) =>
        /\ req[2] = turn_color
        /\ get(board, req[3]) \notin {OutOfBoard, Vacant}
        /\ get(board, req[3]).color = req[2]
        /\ \E k \in 1..Len(SafeOfOrigin) :
              /\ out = SafeOfOrigin[k]
              /\ Goes(out, req[4])
              /\ \A j \in 1..(k - 1) : ~Goes(SafeOfOrigin[j], req[4])
        /\ \A n \in 1..Len(out) : out[n].t = "Promotion" => out[n].k = "Queen"

\* the player moves a pawn to its last rank
C37_Witness ==
    /\ HumanCall
    /\ out # None
    /\ \E n \in 1..Len(out) : out[n].t = "Promotion"

----------------------------------------------------------------------------
(* Properties of SpecLoop *)

\* start_ai_turn runs and Game::cached_moves_mut(choss.turn) is Some
TakesCached ==
    /\ out = None
    /\ req.undoing = "none"
    /\ req.status = "Playing"
    /\ AiToMove
    /\ ~req.to_play
    /\ turn = req.turn

\* C38: whenever start_ai_turn takes the cached-move branch the cached list
\* is non-empty, so cached_moves.pop().unwrap() never fails, whatever the
\* sequence of decisions, undos, game endings and new games.
C38_CachedPopSucceeds ==
    /\ out = None
    /\ TakesCached => req.cached_moves > 0

\* the second undo to the same saved state is about to take the last
\* cached alternative
C38_Witness ==
    /\ TakesCached
    /\ req.undos = 2
    /\ req.cached_moves = 1

\* start_ai_turn spawns the UndoingComp
UndoStarts == req.undoing = "none" /\ req'.undoing = "ascending"

\* undo replaces the game by last_state
UndoZenith == req.undoing = "ascending" /\ req'.undoing = "descending"

\* start_ai_turn chooses the move to play
AiDecides == AiToMove /\ ~req.to_play /\ req'.to_play

\* C39: only opponent 1 undoes; an undo starts only while cached_moves is
\* non-empty; it puts back the game saved at the last freshly computed
\* decision that was accepted, and the AI decision that follows pops one
\* cached alternative without searching; no more than 2 undos go back to the
\* same saved state, after which the cache is empty and a fresh move is
\* accepted.
C39_UndoBounded ==
    /\ [](req.undoing # "none" => req.opponent = 1)
    /\ [](req.undos <= 2)
    /\ []((req.undos = 2 /\ req.decided = "cached") => req.cached_moves = 0)
    /\ [][UndoStarts => req.cached_moves > 0]_vars
    /\ [][UndoZenith => /\ req.last_state # None
                        /\ turn' = req.last_state[1]
                        /\ turn' = req.turn
                        /\ req'.last_state = req.last_state]_vars
    /\ [][(AiDecides /\ req.decided = "undone") =>
              /\ req'.decided = "cached"
              /\ req'.cached_moves = req.cached_moves - 1]_vars
    /\ [][(AiDecides /\ req'.decided = "fresh") =>
              /\ req'.undos = 0
              /\ req'.last_state = <<turn>>]_vars

\* the second undo to the same saved state was followed by the AI taking
\* the last cached alternative
C39_Witness ==
    /\ req.opponent = 1
    /\ req.undos = 2
    /\ req.decided = "cached"
    /\ req.to_play
    /\ req.cached_moves = 0

----------------------------------------------------------------------------
(* Properties of SpecStatus *)

\* play_move applies the move it was given
PlayMoveStep == req.to_play # None /\ turn' = turn + 1

\* king-safe moves of the side that moves next, after the step
NextSideMoves == moves(board', Color_next(turn_color), TRUE)

NextSideChecked == is_checked(board', Color_next(turn_color)) = "true"

\* start_ai_turn passes its guard
AiSearchStarts ==
    /\ req.status = "Playing"
    /\ Human # turn_color
    /\ req.to_play = None

\* C40: play_move leaves Playing only when the side to move next has no
\* king-safe move: Win if that side is in check and the human moved, Loss if
\* it is in check and the AI moved, Draw if it is not in check; otherwise the
\* status stays Playing, so the AI never searches a position without a move.
C40_StatusAfterMove ==
    /\ [][PlayMoveStep =>
              /\ req.status = "Playing"
              /\ req'.status =
                    IF NextSideMoves # << >> THEN "Playing"
                    ELSE IF ~NextSideChecked THEN "Draw"
                    ELSE IF turn_color = Human THEN "Win" ELSE "Loss"]_vars
    /\ [](out = None)
    /\ [](AiSearchStarts => moves(board, turn_color, TRUE) # << >>)

\* the human has mated the AI
C40_Witness == req.status = "Win" /\ turn >= 1

====
